---- MODULE Spec2Model ----
(***************************************************************************)
(* A model of the rule-based resume scoring engines of AI_jobpylot:        *)
(*   - src/deterministic_ats_engine.py          (the dimension scorers)    *)
(*   - src/services/deterministic_ats_engine.py (the six-section analysis  *)
(*     with the weighted, boosted aggregate)                               *)
(*                                                                         *)
(* Conventions.                                                            *)
(*   - A Python str is a TLA+ string; TLC evaluates Len, SubSeq and \o on  *)
(*     strings, so the text operations and the regular expressions of the  *)
(*     source are computed character by character.                         *)
(*   - A Python dict is a function whose DOMAIN is the set of keys that    *)
(*     are present; an insertion-ordered dict that the code iterates is a  *)
(*     sequence of <<key, value>> pairs.                                   *)
(*   - A score is an integer number of hundredths of a point: 5.0 is 500.  *)
(*     Every score of the source is a multiple of 0.01 (or is rounded to   *)
(*     one by round(x, 2)), ratios are compared by cross-multiplication,   *)
(*     so floating point is modelled by exact rational arithmetic.         *)
(***************************************************************************)
EXTENDS Integers, Sequences, FiniteSets, TLC

(***************************************************************************)
(* Python string primitives                                                *)
(***************************************************************************)
Digit == {"0", "1", "2", "3", "4", "5", "6", "7", "8", "9"}

LowerAlpha == {"a", "b", "c", "d", "e", "f", "g", "h", "i", "j", "k", "l", "m",
               "n", "o", "p", "q", "r", "s", "t", "u", "v", "w", "x", "y", "z"}

UpperAlpha == {"A", "B", "C", "D", "E", "F", "G", "H", "I", "J", "K", "L", "M",
               "N", "O", "P", "Q", "R", "S", "T", "U", "V", "W", "X", "Y", "Z"}

\* \s of the re module (the inputs hold no other white space than these)
Space == {" ", "\t", "\n"}

\* \w of the re module
WordChar == LowerAlpha \cup UpperAlpha \cup Digit \cup {"_"}

\* s[i-1:i], the empty string when i is outside the string
CharAt(s, i) == IF 1 <= i /\ i <= Len(s) THEN SubSeq(s, i, i) ELSE ""

\* s[i-1:i-1+n], cut at the end of the string like a Python slice
Slice(s, i, n) ==
    LET j == IF i + n - 1 <= Len(s) THEN i + n - 1 ELSE Len(s)
    IN  IF i >= 1 /\ i <= j THEN SubSeq(s, i, j) ELSE ""

Min(S) == CHOOSE x \in S : \A y \in S : x <= y

Max(S) == CHOOSE x \in S : \A y \in S : x >= y

LowerOf == [c \in UpperAlpha |->
    CASE c = "A" -> "a" [] c = "B" -> "b" [] c = "C" -> "c" [] c = "D" -> "d"
      [] c = "E" -> "e" [] c = "F" -> "f" [] c = "G" -> "g" [] c = "H" -> "h"
      [] c = "I" -> "i" [] c = "J" -> "j" [] c = "K" -> "k" [] c = "L" -> "l"
      [] c = "M" -> "m" [] c = "N" -> "n" [] c = "O" -> "o" [] c = "P" -> "p"
      [] c = "Q" -> "q" [] c = "R" -> "r" [] c = "S" -> "s" [] c = "T" -> "t"
      [] c = "U" -> "u" [] c = "V" -> "v" [] c = "W" -> "w" [] c = "X" -> "x"
      [] c = "Y" -> "y" [] c = "Z" -> "z"]

\* str.lower()
RECURSIVE str_lower(_)
str_lower(s) ==
    IF Len(s) = 0 THEN ""
    ELSE IF Len(s) = 1 THEN (IF s \in UpperAlpha THEN LowerOf[s] ELSE s)
    ELSE LET h == Len(s) \div 2
         IN  str_lower(SubSeq(s, 1, h)) \o str_lower(SubSeq(s, h + 1, Len(s)))

\* the positions where sub occurs in s
Occurrences(sub, s) ==
    {i \in 1..(Len(s) - Len(sub) + 1) : SubSeq(s, i, i + Len(sub) - 1) = sub}

\* sub in s
str_contains(sub, s) == Len(sub) = 0 \/ Occurrences(sub, s) # {}

\* the number of matches a left-to-right scan keeps out of the candidate
\* matches: ends[j] is the end (the position after the last character) of
\* the match that starts at j. The scan keeps the leftmost match, then the
\* leftmost one that starts at or after its end.
RECURSIVE ScanCount(_, _)
ScanCount(ends, from) ==
    LET rest == {j \in DOMAIN ends : j >= from}
    IN  IF rest = {} THEN 0
        ELSE LET j == Min(rest)
                 e == ends[j]
             IN  1 + ScanCount(ends, IF e > j THEN e ELSE j + 1)

\* str.count(sub): the non-overlapping occurrences
str_count(s, sub) ==
    IF Len(sub) = 0 THEN Len(s) + 1
    ELSE ScanCount([j \in Occurrences(sub, s) |-> j + Len(sub)], 1)

\* str.strip()
str_strip(s) ==
    LET ink == {i \in 1..Len(s) : SubSeq(s, i, i) \notin Space}
    IN  IF ink = {} THEN "" ELSE SubSeq(s, Min(ink), Max(ink))

\* len(s.split()): the maximal runs of non-white-space characters
str_split_len(s) ==
    Cardinality({i \in 1..Len(s) :
        SubSeq(s, i, i) \notin Space /\ (i = 1 \/ SubSeq(s, i - 1, i - 1) \in Space)})

\* any(char.isdigit() for char in s)
has_digit(s) == \E i \in 1..Len(s) : SubSeq(s, i, i) \in Digit

\* ' '.join(parts)
RECURSIVE str_join(_)
str_join(parts) ==
    IF Len(parts) = 0 THEN ""
    ELSE IF Len(parts) = 1 THEN parts[1]
    ELSE LET h == Len(parts) \div 2
         IN  str_join(SubSeq(parts, 1, h)) \o " " \o str_join(SubSeq(parts, h + 1, Len(parts)))

\* repr(s) of a str: single quotes, double quotes when s holds a single
\* quote and no double quote (the inputs hold no character repr escapes)
py_repr(s) ==
    IF str_contains("'", s) /\ ~str_contains("\"", s)
    THEN "\"" \o s \o "\""
    ELSE "'" \o s \o "'"

\* str(l) of a list of str
RECURSIVE py_repr_items(_)
py_repr_items(l) ==
    IF Len(l) = 0 THEN ""
    ELSE IF Len(l) = 1 THEN py_repr(l[1])
    ELSE py_repr(l[1]) \o ", " \o py_repr_items(Tail(l))

py_str_list(l) == "[" \o py_repr_items(l) \o "]"

\* the concatenation of a sequence of sequences (list.extend in a loop)
RECURSIVE Flatten(_)
Flatten(ss) == IF Len(ss) = 0 THEN <<>> ELSE ss[1] \o Flatten(Tail(ss))

\* sum(f(x) for x in l)
RECURSIVE SumSeq(_)
SumSeq(l) == IF Len(l) = 0 THEN 0 ELSE l[1] + SumSeq(Tail(l))

\* sum(f[x] for x in S), S a Python set or a list without repetition
RECURSIVE SumOver(_, _)
SumOver(f, S) ==
    IF S = {} THEN 0
    ELSE LET x == CHOOSE y \in S : TRUE
         IN  f[x] + SumOver(f, S \ {x})

\* dict.get(key, default)
Get(d, key, default) == IF key \in DOMAIN d THEN d[key] ELSE default

\* n / d of two numbers, kept as the fraction; the division raises
\* ZeroDivisionError when d is 0
Div(n, d) == [num |-> n, den |-> d]

\* one of the divisions of a list raises
Raised(quotients) == \E i \in DOMAIN quotients : quotients[i].den = 0

\* what a call returns in place of a score when a division in it raises
ZeroDivisionError == -1

(***************************************************************************)
(* The re module, for the patterns the engines use.  A pattern is a        *)
(* sequence of atoms, matched greedily with backtracking as re does.       *)
(* re.IGNORECASE is obtained by the caller: pattern literals are written   *)
(* in lower case and the subject is lowered first.                         *)
(***************************************************************************)
\* a literal string
Lit(str) == [k |-> "lit", s |-> str]

\* c{lo,hi} for a character class c
Rep(c, lo, hi) == [k |-> "rep", c |-> c, lo |-> lo, hi |-> hi]

\* c+ ; no subject is longer than the cap, so the cap never binds
Plus(c) == [k |-> "plus", c |-> c]

\* c*
Star(c) == [k |-> "star", c |-> c]

\* \b
WordB == [k |-> "b"]

\* . (any character but a newline)
AnyChar == [k |-> "any"]

\* (?=c) for a character class c
Ahead(c) == [k |-> "ahead", c |-> c]

\* (?:p1|p2|...), the alternatives in order
Alt(alts) == [k |-> "alt", alts |-> alts]

\* the length of the run of characters of class c that starts at s[i]
RECURSIVE RunLen(_, _, _)
RunLen(s, i, c) == IF CharAt(s, i) \in c THEN 1 + RunLen(s, i + 1, c) ELSE 0

\* \b at position i: exactly one of s[i-1], s[i] is a word character
AtWordBoundary(s, i) == (CharAt(s, i - 1) \in WordChar) # (CharAt(s, i) \in WordChar)

\* The end (the position after the last character) of the match of pattern
\* p that starts at position i of s, 0 when there is none.  A repetition
\* takes the largest count that lets the rest of the pattern match, an
\* alternation the first alternative that does: the match re finds.
RECURSIVE MatchEnd(_, _, _)
MatchEnd(p, s, i) ==
    IF Len(p) = 0 THEN i
    ELSE
      LET a == Head(p)
          rest == Tail(p)
          lo == CASE a.k = "rep" -> a.lo [] a.k = "plus" -> 1 [] OTHER -> 0
          run == RunLen(s, i, a.c)
          hi == IF a.k = "rep" /\ a.hi < run THEN a.hi ELSE run
          counts == {n \in lo..hi : MatchEnd(rest, s, i + n) # 0}
          alts == {j \in 1..Len(a.alts) : MatchEnd(a.alts[j] \o rest, s, i) # 0}
      IN  CASE a.k = "lit" ->
                 IF Slice(s, i, Len(a.s)) = a.s THEN MatchEnd(rest, s, i + Len(a.s)) ELSE 0
            [] a.k = "any" ->
                 IF i <= Len(s) /\ CharAt(s, i) # "\n" THEN MatchEnd(rest, s, i + 1) ELSE 0
            [] a.k = "b" ->
                 IF AtWordBoundary(s, i) THEN MatchEnd(rest, s, i) ELSE 0
            [] a.k = "ahead" ->
                 IF CharAt(s, i) \in a.c THEN MatchEnd(rest, s, i) ELSE 0
            [] a.k = "alt" ->
                 IF alts = {} THEN 0 ELSE MatchEnd(a.alts[Min(alts)] \o rest, s, i)
            [] OTHER ->
                 IF counts = {} THEN 0 ELSE MatchEnd(rest, s, i + Max(counts))

\* the start positions of the matches of p in s
MatchStarts(p, s) == {j \in 1..Len(s) : MatchEnd(p, s, j) # 0}

\* len(re.findall(p, s)): the non-overlapping matches, scanning from the left
re_findall_len(p, s) == ScanCount([j \in MatchStarts(p, s) |-> MatchEnd(p, s, j)], 1)

\* re.search(p, s) is not None
re_search(p, s) == \E j \in 1..Len(s) : MatchEnd(p, s, j) # 0

\* re.match(p, s) is not None
re_match(p, s) == MatchEnd(p, s, 1) # 0

\* r'\b' + word + r'\b' with word free of regex metacharacters
re_word(word) == <<WordB, Lit(word), WordB>>

(***************************************************************************)
(* Lexicon Store of the dimension scorers                                  *)
(* (src/deterministic_ats_engine.py, DeterministicATSEngine.__init__)      *)
(***************************************************************************)
weak_verbs == {
    "assisted", "contributed to", "did", "did work on", "got", "had",
    "helped", "helped with", "made", "participated in", "supported",
    "took part in", "used", "was contributing to", "was helping with",
    "was involved in", "was part of", "was responsible for",
    "was supporting", "was working on", "worked on"}

strong_verbs == {
    "accomplished", "achieved", "analyzed", "assessed", "automated",
    "boosted", "built", "collaborated", "converted", "coordinated",
    "created", "cut", "delivered", "deployed", "designed", "developed",
    "directed", "drove", "educated", "enhanced", "established",
    "evaluated", "exceeded", "facilitated", "founded", "generated",
    "implemented", "improved", "increased", "initiated", "integrated",
    "launched", "led", "maintained", "managed", "mentored", "migrated",
    "modernized", "optimized", "orchestrated", "reduced", "researched",
    "reviewed", "saved", "spearheaded", "streamlined", "surpassed",
    "trained", "upgraded"}

buzzwords == {
    "best-in-class", "committed", "comprehensive", "core competency",
    "cutting-edge", "dedicated", "detail-oriented", "disruptive",
    "dynamic", "end-to-end", "fast-paced", "game-changer", "go-getter",
    "guru", "hard-working", "high-energy", "holistic", "innovative",
    "leverage", "mission-critical", "motivated", "ninja", "out-of-the-box",
    "outside the box", "paradigm", "passionate", "proactive",
    "problem solver", "quick learner", "results-driven", "robust",
    "rockstar", "scalable", "self-starter", "strategic", "synergy",
    "tactical", "team player", "think outside the box", "thought leader",
    "value proposition", "value-added", "wizard", "world-class"}

\* the regular expressions, in list order, literals in lower case
quantifiable_indicators == <<
    <<Plus(Digit), Lit("%")>>,
    <<Plus(Digit), Star(Space), Lit("percent")>>,
    <<Plus(Digit), Star(Space), Lit("%")>>,
    <<Lit("$"), Plus(Digit)>>,
    <<Plus(Digit), Star(Space), Lit("dollars")>>,
    <<Plus(Digit), Star(Space), Lit("usd")>>,
    <<Plus(Digit), Star(Space), Lit("people")>>,
    <<Plus(Digit), Star(Space), Lit("users")>>,
    <<Plus(Digit), Star(Space), Lit("customers")>>,
    <<Plus(Digit), Star(Space), Lit("years")>>,
    <<Plus(Digit), Star(Space), Lit("months")>>,
    <<Plus(Digit), Star(Space), Lit("weeks")>>,
    <<Plus(Digit), Star(Space), Lit("projects")>>,
    <<Plus(Digit), Star(Space), Lit("applications")>>,
    <<Plus(Digit), Star(Space), Lit("systems")>>,
    <<Plus(Digit), Star(Space), Lit("times")>>,
    <<Plus(Digit), Star(Space), Lit("fold")>>,
    <<Plus(Digit), Lit("x")>>,
    <<Lit("increased"), Plus(Space), Lit("by"), Plus(Space), Plus(Digit)>>,
    <<Lit("decreased"), Plus(Space), Lit("by"), Plus(Space), Plus(Digit)>>,
    <<Lit("reduced"), Plus(Space), Lit("by"), Plus(Space), Plus(Digit)>>,
    <<Lit("improved"), Plus(Space), Lit("by"), Plus(Space), Plus(Digit)>>,
    <<Lit("from"), Plus(Space), Plus(Digit), Plus(Space), Lit("to"), Plus(Space), Plus(Digit)>>,
    <<Lit("grew"), Plus(Space), Lit("from"), Plus(Space), Plus(Digit), Plus(Space), Lit("to"), Plus(Space), Plus(Digit)>>>>

teamwork_indicators == <<
    "team", "collaborate", "collaboration", "coordinate", "coordination",
    "lead", "led", "managed", "mentor", "mentored", "train", "trained",
    "supervise", "supervised", "guide", "guided", "facilitate",
    "facilitated", "organize", "organized", "plan", "planned", "work with",
    "worked with", "partner", "partnered", "joint", "cross-functional",
    "cross-functional team", "multi-disciplinary", "stakeholder",
    "stakeholders", "client", "clients", "customer", "customers", "vendor",
    "vendors", "supplier", "suppliers">>

required_contact_fields == <<
    "email", "phone", "address", "location", "city", "state", "linkedin",
    "github", "portfolio", "website">>

\* the fallback list of score_ats_keywords
general_keywords == <<
    "python", "javascript", "java", "sql", "react", "node.js", "aws",
    "docker", "git", "agile", "api", "database">>

\* the achievement indicators of score_achievements_vs_responsibilities
achievement_indicators == <<
    "achieved", "increased", "improved", "reduced", "saved", "generated",
    "led to">>

\* the sections score_unnecessary_sections looks for
unnecessary_sections == <<"Hobbies", "Interests", "Personal", "References">>

\* the regular expressions of score_grammar_spelling, in list order
common_errors == <<
    <<WordB, Lit("i"), Plus(Space)>>,
    <<WordB, Lit("its"), Plus(Space), Ahead(WordChar)>>,
    <<WordB, Lit("youre"), WordB>>,
    <<WordB, Lit("theyre"), WordB>>,
    <<WordB, Lit("weve"), WordB>>,
    <<WordB, Lit("ive"), WordB>>>>

\* the lexicons a new engine holds once __init__ has run, those the
\* whole-word counting scorers read
DeterministicATSEngine ==
    [weak_verbs |-> weak_verbs, strong_verbs |-> strong_verbs, buzzwords |-> buzzwords]

(***************************************************************************)
(* The dimension scorers (src/deterministic_ats_engine.py).  resume_data   *)
(* is the dict the caller passes; a scorer returns DeterministicScore.score*)
(***************************************************************************)
\* bool(v) of a str, a list or a dict
Truthy(v) == Len(v) > 0

\* the value list of `key` in the Skills dict (a sequence of <<key, value>>)
SkillsGet(skills, key) ==
    IF \E i \in DOMAIN skills : skills[i][1] = key
    THEN skills[CHOOSE i \in DOMAIN skills : skills[i][1] = key][2]
    ELSE <<>>

\* max(0.0, min(10.0, score))
Clamp(score) == IF score < 0 THEN 0 ELSE IF score > 1000 THEN 1000 ELSE score

\* min(count * step, cap)
Capped(count, step, cap) == IF count * step < cap THEN count * step ELSE cap

_get_date_format(date_string) ==
    IF re_match(<<Rep(Digit, 4, 4), Lit("-"), Rep(Digit, 2, 2)>>, date_string)
    THEN "YYYY-MM"
    ELSE IF re_match(<<Rep(Digit, 2, 2), Lit("/"), Rep(Digit, 4, 4)>>, date_string)
    THEN "MM/YYYY"
    ELSE IF re_match(<<Rep(Digit, 4, 4), Lit("/"), Rep(Digit, 2, 2)>>, date_string)
    THEN "YYYY/MM"
    ELSE IF re_match(<<Plus(WordChar), Plus(Space), Rep(Digit, 4, 4)>>, date_string)
    THEN "Month YYYY"
    ELSE "other"

_extract_all_text(resume_data) ==
    LET work == Get(resume_data, "WorkExperience", <<>>)
        edus == Get(resume_data, "Education", <<>>)
        skills == Get(resume_data, "Skills", <<>>)
        summary_parts == IF "Summary" \in DOMAIN resume_data
                         THEN <<resume_data["Summary"]>> ELSE <<>>
        work_parts == Flatten([i \in DOMAIN work |->
                         <<Get(work[i], "JobTitle", ""), Get(work[i], "Company", ""),
                           py_str_list(Get(work[i], "Responsibilities", <<>>))>>])
        edu_parts == Flatten([i \in DOMAIN edus |->
                         <<Get(edus[i], "Degree", ""), Get(edus[i], "Institution", "")>>])
        skill_parts == Flatten([i \in DOMAIN skills |-> skills[i][2]])
    IN  str_lower(str_join(summary_parts \o work_parts \o edu_parts \o skill_parts))

\* sum(len(re.findall(r'\b' + w + r'\b', all_text)) for w in words)
WordMatches(words, all_text) ==
    SumOver([w \in words |-> re_findall_len(re_word(w), all_text)], words)

\* the elements of a list, for a list without repetition
Range(l) == {l[i] : i \in DOMAIN l}

\* not summary or len(summary.strip()) < 10, the test score_summary opens with;
\* first the variant that measures the summary unstripped
summary_too_short_unstripped(summary) == ~Truthy(summary) \/ Len(summary) < 10

summary_too_short(summary) == ~Truthy(summary) \/ Len(str_strip(summary)) < 10

\* DeterministicATSEngine.score_summary; first the variant that leaves the
\* buzzword penalty without its cap
score_summary_penalty_uncapped(summary) ==
    IF summary_too_short(summary) THEN 200
    ELSE
      LET summary_lower == str_lower(summary)
          sentences == str_count(summary, ".") + 1
          length_delta == IF 3 <= sentences /\ sentences <= 4 THEN 100
                          ELSE IF sentences > 4 THEN -100 ELSE 0
          strong_verb_count ==
              Cardinality({verb \in strong_verbs : str_contains(verb, summary_lower)})
          quantifiable_count ==
              Cardinality({i \in DOMAIN quantifiable_indicators :
                              re_search(quantifiable_indicators[i], summary_lower)})
          buzzword_count ==
              Cardinality({buzzword \in buzzwords : str_contains(buzzword, summary_lower)})
      IN  Clamp(500 + length_delta
                    + Capped(strong_verb_count, 50, 200)
                    + Capped(quantifiable_count, 100, 200)
                    - buzzword_count * 50)

score_summary(summary) ==
    IF summary_too_short(summary) THEN 200
    ELSE
      LET summary_lower == str_lower(summary)
          sentences == str_count(summary, ".") + 1
          length_delta == IF 3 <= sentences /\ sentences <= 4 THEN 100
                          ELSE IF sentences > 4 THEN -100 ELSE 0
          strong_verb_count ==
              Cardinality({verb \in strong_verbs : str_contains(verb, summary_lower)})
          quantifiable_count ==
              Cardinality({i \in DOMAIN quantifiable_indicators :
                              re_search(quantifiable_indicators[i], summary_lower)})
          buzzword_count ==
              Cardinality({buzzword \in buzzwords : str_contains(buzzword, summary_lower)})
      IN  Clamp(500 + length_delta
                    + Capped(strong_verb_count, 50, 200)
                    + Capped(quantifiable_count, 100, 200)
                    - Capped(buzzword_count, 50, 200))

\* what score_dates adds to the base score once the entries are counted;
\* first the variant that grants the range bonus from the first dated entry
date_delta_bonus_from_one(date_count, consistent_format) ==
    IF date_count > 0
    THEN (IF consistent_format THEN 300 ELSE -200) + (IF date_count >= 1 THEN 100 ELSE 0)
    ELSE 0

date_delta(date_count, consistent_format) ==
    IF date_count > 0
    THEN (IF consistent_format THEN 300 ELSE -200) + (IF date_count >= 2 THEN 100 ELSE 0)
    ELSE 0

score_dates(resume_data) ==
    LET work == Get(resume_data, "WorkExperience", <<>>)
        edus == Get(resume_data, "Education", <<>>)
        \* the entries whose Duration is not empty, in order
        dated == {i \in DOMAIN work : Truthy(Get(work[i], "Duration", ""))}
        format(i) == _get_date_format(Get(work[i], "Duration", ""))
        \* current_format != previous_format for two successive dated entries
        consistent_format ==
            \A i, j \in dated :
                (i < j /\ ~\E m \in dated : i < m /\ m < j) => format(i) = format(j)
        date_count ==
            Cardinality(dated)
            + Cardinality({i \in DOMAIN edus :
                  Truthy(Get(edus[i], "StartYear", "")) \/ Truthy(Get(edus[i], "EndYear", ""))})
    IN  Clamp(500 + date_delta(date_count, consistent_format))

\* the occurrences of weak and of strong verbs score_weak_verbs counts
CountWeakVerbs(resume_data) == WordMatches(weak_verbs, _extract_all_text(resume_data))

CountStrongVerbs(resume_data) == WordMatches(strong_verbs, _extract_all_text(resume_data))

\* what score_weak_verbs adds to the base score for the two counts; first the
\* variant whose bonus reads the weak ratio where the code reads the strong
verb_ratio_delta_bonus_on_weak(weak_verb_count, strong_verb_count) ==
    LET total_verbs == weak_verb_count + strong_verb_count
        weak_delta == IF 10 * weak_verb_count > 5 * total_verbs THEN -300
                      ELSE IF 10 * weak_verb_count > 3 * total_verbs THEN -150 ELSE 0
        strong_delta == IF 10 * weak_verb_count > 7 * total_verbs THEN 200
                        ELSE IF 10 * weak_verb_count > 5 * total_verbs THEN 100 ELSE 0
    IN  IF total_verbs > 0 THEN weak_delta + strong_delta ELSE 0

\* the variant whose four thresholds include their bounds
verb_ratio_delta_inclusive(weak_verb_count, strong_verb_count) ==
    LET total_verbs == weak_verb_count + strong_verb_count
        weak_delta == IF 10 * weak_verb_count >= 5 * total_verbs THEN -300
                      ELSE IF 10 * weak_verb_count >= 3 * total_verbs THEN -150 ELSE 0
        strong_delta == IF 10 * strong_verb_count >= 7 * total_verbs THEN 200
                        ELSE IF 10 * strong_verb_count >= 5 * total_verbs THEN 100 ELSE 0
    IN  IF total_verbs > 0 THEN weak_delta + strong_delta ELSE 0

verb_ratio_delta(weak_verb_count, strong_verb_count) ==
    LET total_verbs == weak_verb_count + strong_verb_count
        \* weak_verb_ratio > 0.5 is 10 * weak > 5 * total, and so on
        weak_delta == IF 10 * weak_verb_count > 5 * total_verbs THEN -300
                      ELSE IF 10 * weak_verb_count > 3 * total_verbs THEN -150 ELSE 0
        strong_delta == IF 10 * strong_verb_count > 7 * total_verbs THEN 200
                        ELSE IF 10 * strong_verb_count > 5 * total_verbs THEN 100 ELSE 0
    IN  IF total_verbs > 0 THEN weak_delta + strong_delta ELSE 0

\* weak_verb_ratio and strong_verb_ratio, the divisions score_weak_verbs
\* makes; first the variant without the test total_verbs > 0
verb_ratios_unguarded(weak_verb_count, strong_verb_count) ==
    LET total_verbs == weak_verb_count + strong_verb_count
    IN  <<Div(weak_verb_count, total_verbs), Div(strong_verb_count, total_verbs)>>

verb_ratios(weak_verb_count, strong_verb_count) ==
    LET total_verbs == weak_verb_count + strong_verb_count
    IN  IF total_verbs > 0
        THEN <<Div(weak_verb_count, total_verbs), Div(strong_verb_count, total_verbs)>>
        ELSE <<>>

score_weak_verbs(resume_data) ==
    LET weak_verb_count == CountWeakVerbs(resume_data)
        strong_verb_count == CountStrongVerbs(resume_data)
    IN  IF Raised(verb_ratios(weak_verb_count, strong_verb_count)) THEN ZeroDivisionError
        ELSE Clamp(500 + verb_ratio_delta(weak_verb_count, strong_verb_count))

\* the matches of all quantifiable_indicators score_quantity_impact counts
CountQuantifiable(resume_data) ==
    LET all_text == _extract_all_text(resume_data)
    IN  SumSeq([i \in DOMAIN quantifiable_indicators |->
                   re_findall_len(quantifiable_indicators[i], all_text)])

\* what score_quantity_impact adds to the base score; first the variant
\* that leaves the base score alone without a match
quantity_delta_no_penalty(quantifiable_count) ==
    IF quantifiable_count >= 5 THEN 300
    ELSE IF quantifiable_count >= 3 THEN 200
    ELSE IF quantifiable_count >= 1 THEN 100 ELSE 0

quantity_delta(quantifiable_count) ==
    IF quantifiable_count >= 5 THEN 300
    ELSE IF quantifiable_count >= 3 THEN 200
    ELSE IF quantifiable_count >= 1 THEN 100 ELSE -200

score_quantity_impact(resume_data) ==
    Clamp(500 + quantity_delta(CountQuantifiable(resume_data)))

score_teamwork(resume_data) ==
    LET all_text == _extract_all_text(resume_data)
        teamwork_count == WordMatches(Range(teamwork_indicators), all_text)
    IN  Clamp(500 + (IF teamwork_count >= 5 THEN 300
                     ELSE IF teamwork_count >= 3 THEN 200
                     ELSE IF teamwork_count >= 1 THEN 100 ELSE -100))

\* the whole-word buzzword occurrences score_buzzwords counts
CountBuzzwords(resume_data) == WordMatches(buzzwords, _extract_all_text(resume_data))

\* what score_buzzwords adds to the base score; first the variant with the
\* two middle tiers exchanged
buzzword_delta_tiers_exchanged(buzzword_count) ==
    IF buzzword_count = 0 THEN 300
    ELSE IF buzzword_count <= 2 THEN -100
    ELSE IF buzzword_count <= 5 THEN 100 ELSE -300

buzzword_delta(buzzword_count) ==
    IF buzzword_count = 0 THEN 300
    ELSE IF buzzword_count <= 2 THEN 100
    ELSE IF buzzword_count <= 5 THEN -100 ELSE -300

\* score_buzzwords with a penalty of one point per buzzword and no clamp
score_buzzwords_unclamped(resume_data) == 500 - 100 * CountBuzzwords(resume_data)

score_buzzwords(resume_data) == Clamp(500 + buzzword_delta(CountBuzzwords(resume_data)))

\* field in resume_data and resume_data[field]
Present(resume_data, field) == field \in DOMAIN resume_data /\ Truthy(resume_data[field])

\* what score_contact_details adds to the base score; first the variant
\* that asks for five fields before the bonus
contact_delta_bonus_at_five(essential_count, contact_fields) ==
    (IF essential_count = 2 THEN 300 ELSE IF essential_count = 1 THEN 100 ELSE -200)
    + (IF contact_fields >= 5 THEN 100 ELSE 0)

contact_delta(essential_count, contact_fields) ==
    (IF essential_count = 2 THEN 300 ELSE IF essential_count = 1 THEN 100 ELSE -200)
    + (IF contact_fields >= 4 THEN 100 ELSE 0)

score_contact_details(resume_data) ==
    LET contact_fields ==
            Cardinality({i \in DOMAIN required_contact_fields :
                            Present(resume_data, required_contact_fields[i])})
        essential_count ==
            Cardinality({field \in {"email", "phone"} : Present(resume_data, field)})
    IN  Clamp(500 + contact_delta(essential_count, contact_fields))

score_grammar_spelling(resume_data) ==
    LET all_text == _extract_all_text(resume_data)
        error_count ==
            SumSeq([i \in DOMAIN common_errors |-> re_findall_len(common_errors[i], all_text)])
    IN  Clamp(500 + (IF error_count = 0 THEN 300
                     ELSE IF error_count <= 2 THEN 100
                     ELSE IF error_count <= 5 THEN -100 ELSE -300))

score_formatting_layout(resume_data) ==
    LET present_sections ==
            Cardinality({section \in {"WorkExperience", "Education", "Skills"} :
                            Present(resume_data, section)})
        skills == Get(resume_data, "Skills", <<>>)
        work_exp == Get(resume_data, "WorkExperience", <<>>)
    IN  Clamp(500 + (IF present_sections = 3 THEN 200
                     ELSE IF present_sections = 2 THEN 100 ELSE -100)
                  + (IF Len(skills) > 0 THEN 100 ELSE 0)
                  + (IF Len(work_exp) > 0
                        /\ "Responsibilities" \in DOMAIN work_exp[1]
                        /\ Len(work_exp[1]["Responsibilities"]) > 0
                     THEN 100 ELSE 0))

\* `word` as the pattern re compiles it from the unescaped string: a dot
\* stands for any character (the only metacharacter in general_keywords)
RECURSIVE re_unescaped(_)
re_unescaped(word) ==
    LET dots == Occurrences(".", word)
        d == Min(dots)
    IN  IF dots = {} THEN (IF Len(word) = 0 THEN <<>> ELSE <<Lit(word)>>)
        ELSE (IF d = 1 THEN <<>> ELSE <<Lit(SubSeq(word, 1, d - 1))>>)
             \o <<AnyChar>> \o re_unescaped(Slice(word, d + 1, Len(word)))

\* the entries of job_keywords that match the corpus as whole words;
\* re.escape(keyword): the keyword as a literal, case ignored
CountKeywordMatches(resume_data, job_keywords) ==
    LET all_text == _extract_all_text(resume_data)
    IN  Cardinality({i \in DOMAIN job_keywords :
            re_search(<<WordB, Lit(str_lower(job_keywords[i])), WordB>>, all_text)})

\* the general_keywords that match the corpus
CountGeneralMatches(resume_data) ==
    LET all_text == _extract_all_text(resume_data)
    IN  Cardinality({i \in DOMAIN general_keywords :
            re_search(<<WordB>> \o re_unescaped(general_keywords[i]) \o <<WordB>>,
                      all_text)})

\* what score_ats_keywords adds for keyword_matches of n given keywords:
\* keyword_matches >= len(job_keywords) * 0.8, and so on; first the variant
\* whose buckets exclude their lower ends
keyword_delta_strict(keyword_matches, n) ==
    IF 10 * keyword_matches > 8 * n THEN 300
    ELSE IF 10 * keyword_matches > 5 * n THEN 200
    ELSE IF 10 * keyword_matches > 3 * n THEN 100 ELSE 0

keyword_delta(keyword_matches, n) ==
    IF 10 * keyword_matches >= 8 * n THEN 300
    ELSE IF 10 * keyword_matches >= 5 * n THEN 200
    ELSE IF 10 * keyword_matches >= 3 * n THEN 100 ELSE 0

\* what it adds for the matches of the general keywords
general_delta(general_matches) ==
    IF general_matches >= 5 THEN 200
    ELSE IF general_matches >= 3 THEN 100 ELSE 0

\* job_keywords is a list; None is the empty list (the code tests its truth)
score_ats_keywords(resume_data, job_keywords) ==
    Clamp(500 + (IF Truthy(job_keywords)
                 THEN keyword_delta(CountKeywordMatches(resume_data, job_keywords),
                                    Len(job_keywords))
                 ELSE general_delta(CountGeneralMatches(resume_data))))

\* `not skills`, the test before the early return of score_skills_relevance;
\* first the variant that never returns early
skills_missing_never(skills) == FALSE

skills_missing(skills) == ~Truthy(skills)

score_skills_relevance(resume_data) ==
    LET skills == Get(resume_data, "Skills", <<>>)
        tech_skills == SkillsGet(skills, "TechStack")
        soft_skills == SkillsGet(skills, "soft_skills")
    IN  IF skills_missing(skills) THEN 200
        ELSE Clamp(500 + (IF Len(skills) > 1 THEN 100 ELSE 0)
                       + (IF Len(tech_skills) >= 3 THEN 200
                          ELSE IF Len(tech_skills) >= 1 THEN 100 ELSE 0)
                       + (IF Len(soft_skills) >= 2 THEN 100 ELSE 0))

\* any(indicator in resp.lower() for indicator in [...])
IsAchievement(resp) ==
    \E i \in DOMAIN achievement_indicators :
        str_contains(achievement_indicators[i], str_lower(resp))

\* the Responsibilities of all jobs, one list
Bullets(resume_data) ==
    LET work == Get(resume_data, "WorkExperience", <<>>)
    IN  Flatten([i \in DOMAIN work |-> Get(work[i], "Responsibilities", <<>>)])

\* what score_achievements_vs_responsibilities adds to the base score; first
\* the variant whose buckets exclude their lower ends
achievement_delta_strict(achievement_count, responsibility_count) ==
    LET total == achievement_count + responsibility_count
    IN  IF achievement_count > 0 /\ responsibility_count > 0
        THEN (IF 10 * achievement_count > 6 * total THEN 200
              ELSE IF 10 * achievement_count > 4 * total THEN 100
              ELSE IF 10 * achievement_count < 2 * total THEN -100 ELSE 0)
        ELSE IF achievement_count > 0 THEN 100 ELSE -200

\* the variant that exchanges the bonuses of the two upper buckets
achievement_delta_tiers_exchanged(achievement_count, responsibility_count) ==
    LET total == achievement_count + responsibility_count
    IN  IF achievement_count > 0 /\ responsibility_count > 0
        THEN (IF 10 * achievement_count >= 6 * total THEN 100
              ELSE IF 10 * achievement_count >= 4 * total THEN 200
              ELSE IF 10 * achievement_count < 2 * total THEN -100 ELSE 0)
        ELSE IF achievement_count > 0 THEN 100 ELSE -200

achievement_delta(achievement_count, responsibility_count) ==
    LET total == achievement_count + responsibility_count
    IN  IF achievement_count > 0 /\ responsibility_count > 0
        THEN \* ratio >= 0.6 is 10 * achievements >= 6 * total
             (IF 10 * achievement_count >= 6 * total THEN 200
              ELSE IF 10 * achievement_count >= 4 * total THEN 100
              ELSE IF 10 * achievement_count < 2 * total THEN -100 ELSE 0)
        ELSE IF achievement_count > 0 THEN 100 ELSE -200

\* ratio, the division score_achievements_vs_responsibilities makes; first
\* the variant without the test that both counts are positive
achievement_ratios_unguarded(achievement_count, responsibility_count) ==
    <<Div(achievement_count, achievement_count + responsibility_count)>>

achievement_ratios(achievement_count, responsibility_count) ==
    IF achievement_count > 0 /\ responsibility_count > 0
    THEN <<Div(achievement_count, achievement_count + responsibility_count)>>
    ELSE <<>>

score_achievements_vs_responsibilities(resume_data) ==
    LET bullets == Bullets(resume_data)
        achievement_count == Cardinality({i \in DOMAIN bullets : IsAchievement(bullets[i])})
        responsibility_count == Len(bullets) - achievement_count
    IN  IF Raised(achievement_ratios(achievement_count, responsibility_count))
        THEN ZeroDivisionError
        ELSE Clamp(500 + achievement_delta(achievement_count, responsibility_count))

score_unnecessary_sections(resume_data) ==
    LET found_unnecessary ==
            Cardinality({i \in DOMAIN unnecessary_sections :
                            Present(resume_data, unnecessary_sections[i])})
    IN  Clamp(500 + (IF found_unnecessary = 0 THEN 200
                     ELSE IF found_unnecessary = 1 THEN 100 ELSE -100))

analyze_line(line) ==
    LET line_lower == str_lower(line)
        strong_verb_count ==
            Cardinality({verb \in strong_verbs : str_contains(verb, line_lower)})
        weak_verb_count ==
            Cardinality({verb \in weak_verbs : str_contains(verb, line_lower)})
        quantifiable_count ==
            Cardinality({i \in DOMAIN quantifiable_indicators :
                            re_search(quantifiable_indicators[i], line_lower)})
        buzzword_count ==
            Cardinality({buzzword \in buzzwords : str_contains(buzzword, line_lower)})
    IN  Clamp(500 + Capped(strong_verb_count, 50, 200)
                  - Capped(weak_verb_count, 50, 200)
                  + Capped(quantifiable_count, 100, 200)
                  - Capped(buzzword_count, 50, 200))

(***************************************************************************)
(* The hybrid checker (src/main.py): the dispatch of a section to its      *)
(* scorer, the overall score on the 100-point scale and its grade.  A      *)
(* score on that scale is kept as the fraction num / den of points.        *)
(***************************************************************************)
\* the sections hybrid_analyze_all_sections analyses, in its order
all_sections == <<
    "summary", "dates", "weak_verbs", "quantity_impact", "teamwork", "buzzwords",
    "contact_details", "grammar_spelling", "formatting_layout", "ats_keywords",
    "skills_relevance", "achievements_vs_responsibilities", "unnecessary_sections">>

_get_deterministic_score(section, resume_data, job_keywords) ==
    CASE section = "summary" -> score_summary(Get(resume_data, "Summary", ""))
      [] section = "dates" -> score_dates(resume_data)
      [] section = "weak_verbs" -> score_weak_verbs(resume_data)
      [] section = "quantity_impact" -> score_quantity_impact(resume_data)
      [] section = "teamwork" -> score_teamwork(resume_data)
      [] section = "buzzwords" -> score_buzzwords(resume_data)
      [] section = "contact_details" -> score_contact_details(resume_data)
      [] section = "grammar_spelling" -> score_grammar_spelling(resume_data)
      [] section = "formatting_layout" -> score_formatting_layout(resume_data)
      [] section = "ats_keywords" -> score_ats_keywords(resume_data, job_keywords)
      [] section = "skills_relevance" -> score_skills_relevance(resume_data)
      [] section = "achievements_vs_responsibilities" ->
             score_achievements_vs_responsibilities(resume_data)
      [] section = "unnecessary_sections" -> score_unnecessary_sections(resume_data)
      [] OTHER -> 0

\* get_grade with the bounds of B+ and B exchanged
get_grade_bounds_exchanged(score) ==
    IF score.num >= 90 * score.den THEN "A+ (Excellent)"
    ELSE IF score.num >= 80 * score.den THEN "A (Very Good)"
    ELSE IF score.num >= 60 * score.den THEN "B+ (Good)"
    ELSE IF score.num >= 70 * score.den THEN "B (Above Average)"
    ELSE IF score.num >= 50 * score.den THEN "C (Average)"
    ELSE IF score.num >= 40 * score.den THEN "D (Below Average)"
    ELSE "F (Poor)"

get_grade(score) ==
    IF score.num >= 90 * score.den THEN "A+ (Excellent)"
    ELSE IF score.num >= 80 * score.den THEN "A (Very Good)"
    ELSE IF score.num >= 70 * score.den THEN "B+ (Good)"
    ELSE IF score.num >= 60 * score.den THEN "B (Above Average)"
    ELSE IF score.num >= 50 * score.den THEN "C (Average)"
    ELSE IF score.num >= 40 * score.den THEN "D (Below Average)"
    ELSE "F (Poor)"

\* (total_score / len(sections)) * 10, for total_score in hundredths
overall_score_100(total_score, count) == [num |-> total_score * 10, den |-> 100 * count]

\* The response of hybrid_analyze_all_sections for the parsed record:
\* overall_score, the deterministic score of each section analysis, and the
\* timestamp.  The gpt_analysis of a section is the text the remote model
\* returns; it takes no part in the scores.
hybrid_analyze_all_sections(resume_data, now) ==
    LET names == Range(all_sections)
        Response(analyses, score) ==
            [score |-> score,
             percentage |-> score,
             max_score |-> [num |-> 100, den |-> 1],
             grade |-> get_grade(score),
             section_analyses |-> analyses,
             timestamp |-> now]
        \* each section is analysed once, and the total is summed once
        all_analyses ==
            {[section \in names |-> _get_deterministic_score(section, resume_data, <<>>)]}
    IN  CHOOSE response \in
            {Response(analyses, overall_score_100(SumOver(analyses, names), Len(all_sections))) :
                analyses \in all_analyses} : TRUE

(***************************************************************************)
(* The six-section analysis engine                                         *)
(* (src/services/deterministic_ats_engine.py).  resume_data is the dict    *)
(* {"resume": {...}} the caller passes.                                    *)
(***************************************************************************)
industry_keywords == <<
    "python", "javascript", "java", "react", "angular", "vue", "node.js",
    "sql", "mongodb", "aws", "azure", "docker", "kubernetes", "git",
    "agile", "scrum", "devops", "ci/cd", "api", "rest", "graphql",
    "machine learning", "ai", "data science", "analytics", "cloud",
    "microservices", "serverless", "blockchain", "cybersecurity">>

\* self.action_verbs, the four categories one after the other as
\* _extract_summary visits them ("developed" is in two of them)
action_verbs == <<
    "led", "managed", "directed", "oversaw", "supervised", "achieved",
    "delivered", "implemented", "launched", "developed", "improved",
    "optimized", "enhanced", "streamlined", "reduced", "developed",
    "built", "designed", "architected", "engineered">>

\* technical_keywords of _extract_skills
technical_keywords == <<
    "python", "java", "javascript", "react", "sql", "aws", "docker", "git",
    "api", "html", "css", "node", "angular", "vue", "mongodb",
    "postgresql", "mysql", "redis", "kubernetes", "jenkins", "agile",
    "scrum", "devops", "machine learning", "ai", "data science",
    "analytics", "cloud", "microservices", "serverless", "blockchain",
    "cybersecurity">>

\* DeterministicATSConfig.scoring_weights, in hundredths
scoring_weights ==
    [summary |-> 30, experience |-> 25, skills |-> 20, education |-> 15,
     keywords |-> 7, formatting |-> 3]

\* DeterministicATSConfig: the boost factors _calculate_final_score uses, in
\* tenths (1.0 is 10)
leadership_boost == 22

experience_boost == 19

action_verb_boost == 18

keyword_boost == 20

\* the sections in the order analyze_resume_deterministic compiles them
Sections == <<"summary", "skills", "experience", "education", "keywords", "formatting">>

\* int(s) of a string of decimal digits
DigitValue == [c \in Digit |->
    CASE c = "0" -> 0 [] c = "1" -> 1 [] c = "2" -> 2 [] c = "3" -> 3 [] c = "4" -> 4
      [] c = "5" -> 5 [] c = "6" -> 6 [] c = "7" -> 7 [] c = "8" -> 8 [] c = "9" -> 9]

RECURSIVE int_of_digits(_)
int_of_digits(s) ==
    IF Len(s) = 0 THEN 0
    ELSE 10 * int_of_digits(SubSeq(s, 1, Len(s) - 1)) + DigitValue[SubSeq(s, Len(s), Len(s))]

\* whether int(s) returns: an optional sign and digits, white space around
\* them (the inputs hold no underscores inside numbers)
int_parses(s) ==
    LET t == str_strip(s)
        u == IF CharAt(t, 1) \in {"+", "-"} THEN Slice(t, 2, Len(t)) ELSE t
    IN  Len(u) > 0 /\ RunLen(u, 1, Digit) = Len(u)

\* int(s), when int_parses(s)
int_value(s) ==
    LET t == str_strip(s)
        u == IF CharAt(t, 1) \in {"+", "-"} THEN Slice(t, 2, Len(t)) ELSE t
    IN  IF CharAt(t, 1) = "-" THEN 0 - int_of_digits(u) ELSE int_of_digits(u)

\* round(n / d) to the nearest integer, halves to the even one, as round()
\* does on the exact quotient; n >= 0, d > 0
RoundDiv(n, d) ==
    LET q == n \div d
        r == n % d
    IN  IF 2 * r > d THEN q + 1
        ELSE IF 2 * r < d THEN q
        ELSE IF q % 2 = 0 THEN q ELSE q + 1

\* round(min(10.0, total_score), 2) of a total given in hundredths
Round2Min10(total) == IF total > 1000 THEN 1000 ELSE total

\* resume_data.get("resume", {})
ResumeOf(resume_data) == Get(resume_data, "resume", <<>>)

\* dict.get(key) is truthy, for a str value
GetTruthy(d, key) == key \in DOMAIN d /\ Truthy(d[key])

_extract_years_from_duration(duration) ==
    LET lowered == str_lower(duration)
        \* re.findall(r'\d+', duration): the first run of digits
        starts == {i \in 1..Len(lowered) : CharAt(lowered, i) \in Digit}
        first == IF starts = {} THEN 0
                 ELSE int_of_digits(SubSeq(lowered, Min(starts),
                                           Min(starts) + RunLen(lowered, Min(starts), Digit) - 1))
    IN  IF str_contains("year", lowered) THEN first
        ELSE IF str_contains("month", lowered) THEN first \div 12
        ELSE 0

\* the lists of the Skills dict, one after the other (list.extend)
AllSkills(resume) ==
    LET skills == Get(resume, "Skills", <<>>)
    IN  Flatten([i \in DOMAIN skills |-> skills[i][2]])

_extract_all_text_services(resume_data) ==
    LET resume == ResumeOf(resume_data)
        work == Get(resume, "WorkExperience", <<>>)
        edus == Get(resume, "Education", <<>>)
        basic == <<Get(resume, "Name", ""), Get(resume, "Email", ""),
                   Get(resume, "Phone", ""), Get(resume, "Summary", "")>>
        work_parts == Flatten([i \in DOMAIN work |->
            <<Get(work[i], "JobTitle", ""), Get(work[i], "Company", ""),
              Get(work[i], "Duration", ""), Get(work[i], "Location", "")>>
            \o Get(work[i], "Responsibilities", <<>>)
            \o Get(work[i], "TechStack", <<>>)])
        edu_parts == Flatten([i \in DOMAIN edus |->
            <<Get(edus[i], "Degree", ""), Get(edus[i], "Institution", ""),
              Get(edus[i], "Location", ""), Get(edus[i], "StartYear", ""),
              Get(edus[i], "EndYear", "")>>])
    IN  str_join(basic \o AllSkills(resume) \o work_parts \o edu_parts)

\* [kw for kw in self.industry_keywords if kw.lower() in all_text], as the
\* indexes of the keywords found; all_text is lowered by the caller
FoundKeywords(all_text) ==
    {i \in DOMAIN industry_keywords : str_contains(industry_keywords[i], all_text)}

\* the metrics_pattern of _extract_summary
metrics_pattern == <<Alt(<<
    <<Plus(Digit), Lit("%")>>,
    <<Plus(Digit), Star(Space), Alt(<<
        <<Lit("year"), Rep({"s"}, 0, 1)>>, <<Lit("month"), Rep({"s"}, 0, 1)>>,
        <<Lit("people")>>, <<Lit("users")>>, <<Lit("customers")>>,
        <<Lit("projects")>>, <<Lit("applications")>>, <<Lit("systems")>>,
        <<Lit("teams")>>, <<Lit("companies")>>,
        <<Lit("dollar"), Rep({"s"}, 0, 1)>>, <<Lit("$")>>, <<Lit("percent")>>,
        <<Lit("%")>> >>)>> >>)>>

\* the pieces re.split(r'[.!?]+', s) returns that are not empty once
\* stripped: the maximal runs of characters other than . ! ? that hold a
\* character that is not white space, as <<first, last>> positions
Sentences(s) ==
    LET stop == {".", "!", "?"}
        firsts == {i \in 1..Len(s) : CharAt(s, i) \notin stop
                                     /\ (i = 1 \/ CharAt(s, i - 1) \in stop)}
        last(i) == Min({j \in i..Len(s) : j = Len(s) \/ CharAt(s, j + 1) \in stop})
    IN  {<<i, last(i)>> : i \in {f \in firsts : Len(str_strip(SubSeq(s, f, last(f)))) > 0}}

_extract_summary(resume_data) ==
    LET summary == Get(ResumeOf(resume_data), "Summary", "")
        lowered == str_lower(summary)
        sentences == Sentences(summary)
        words_in == [p \in sentences |-> str_split_len(SubSeq(summary, p[1], p[2]))]
    IN  [text |-> summary,
         length |-> Len(summary),
         metrics_found |-> re_findall_len(metrics_pattern, lowered),
         action_verbs |-> SumSeq([i \in DOMAIN action_verbs |->
                                     str_count(lowered, action_verbs[i])]),
         \* keyword_density = keyword_count / max(len(words), 1), a fraction
         keyword_count |-> Cardinality(FoundKeywords(lowered)),
         words |-> Max({str_split_len(summary), 1}),
         \* avg_sentence_length = sum(...) / max(len(sentences), 1), a fraction
         sentence_words |-> SumOver(words_in, sentences),
         sentences |-> Max({Cardinality(sentences), 1})]

_extract_skills(resume_data) ==
    LET all_skills == AllSkills(ResumeOf(resume_data))
        technical == {i \in DOMAIN all_skills :
                         str_lower(all_skills[i]) \in Range(technical_keywords)}
    IN  [all_skills |-> all_skills,
         technical_count |-> Cardinality(technical),
         soft_count |-> Len(all_skills) - Cardinality(technical)]

_extract_experience(resume_data) == Get(ResumeOf(resume_data), "WorkExperience", <<>>)

_extract_education(resume_data) == Get(ResumeOf(resume_data), "Education", <<>>)

_calculate_summary_score(summary_data) ==
    LET length == Len(summary_data.text)
        length_score == IF 100 <= length /\ length <= 200 THEN 200
                        ELSE IF 50 <= length /\ length <= 300 THEN 150 ELSE 50
        metrics_score == IF summary_data.metrics_found >= 3 THEN 300
                         ELSE IF summary_data.metrics_found >= 2 THEN 200
                         ELSE IF summary_data.metrics_found >= 1 THEN 100 ELSE 0
        verbs_score == IF summary_data.action_verbs >= 5 THEN 200
                       ELSE IF summary_data.action_verbs >= 3 THEN 150
                       ELSE IF summary_data.action_verbs >= 2 THEN 100 ELSE 0
        \* keyword_density >= 0.15 is 100 * count >= 15 * words, and so on
        kc == summary_data.keyword_count
        nw == summary_data.words
        keyword_score == IF 100 * kc >= 15 * nw THEN 200
                         ELSE IF 100 * kc >= 10 * nw THEN 150
                         ELSE IF 100 * kc >= 5 * nw THEN 100 ELSE 0
        \* 15 <= avg_sentence_length <= 25
        sw == summary_data.sentence_words
        ns == summary_data.sentences
        readability_score == IF 15 * ns <= sw /\ sw <= 25 * ns THEN 100 ELSE 50
    IN  Round2Min10(length_score + metrics_score + verbs_score + keyword_score
                    + readability_score)

_calculate_skills_score(skills_data) ==
    LET all_skills == skills_data.all_skills
        total_skills == Len(all_skills)
        denom == Max({total_skills, 1})
        skills_count_score == IF total_skills >= 15 THEN 400
                              ELSE IF total_skills >= 10 THEN 300
                              ELSE IF total_skills >= 6 THEN 200 ELSE 100
        \* technical_ratio >= 0.6 is 10 * technical_count >= 6 * max(total, 1)
        technical_score == IF 10 * skills_data.technical_count >= 6 * denom THEN 300
                           ELSE IF 10 * skills_data.technical_count >= 4 * denom THEN 200
                           ELSE 100
        soft_score == IF 10 * skills_data.soft_count >= 2 * denom THEN 200
                      ELSE IF 10 * skills_data.soft_count >= 1 * denom THEN 100 ELSE 50
        relevant_keywords == Cardinality({i \in DOMAIN all_skills :
                                 str_lower(all_skills[i]) \in Range(industry_keywords)})
        relevance_score == IF relevant_keywords >= 3 THEN 100
                           ELSE IF relevant_keywords >= 1 THEN 50 ELSE 0
    IN  Round2Min10(skills_count_score + technical_score + soft_score + relevance_score)

_calculate_experience_score(experience_data) ==
    LET total_years == SumSeq([i \in DOMAIN experience_data |->
            _extract_years_from_duration(Get(experience_data[i], "Duration", "0 years"))])
        leadership_roles == Cardinality({i \in DOMAIN experience_data :
            \E word \in {"senior", "lead", "manager", "director", "head"} :
                str_contains(word, str_lower(Get(experience_data[i], "JobTitle", "")))})
        quantifiable_achievements == SumSeq([i \in DOMAIN experience_data |->
            LET resp == Get(experience_data[i], "Responsibilities", <<>>)
            IN  Cardinality({j \in DOMAIN resp : has_digit(resp[j])})])
        years_score == IF total_years >= 8 THEN 400
                       ELSE IF total_years >= 5 THEN 300
                       ELSE IF total_years >= 3 THEN 200 ELSE 100
    IN  IF ~Truthy(experience_data) THEN 0
        ELSE Round2Min10(years_score + Capped(leadership_roles, 150, 300)
                         + Capped(quantifiable_achievements, 50, 300))

\* current_year is datetime.now().year
_calculate_education_score(education_data, current_year) ==
    LET highest_degree == education_data[1]
        degree == str_lower(Get(highest_degree, "Degree", ""))
        degree_score ==
            IF str_contains("phd", degree) \/ str_contains("doctorate", degree) THEN 600
            ELSE IF str_contains("master", degree) THEN 500
            ELSE IF str_contains("bachelor", degree) THEN 400
            ELSE IF str_contains("associate", degree) THEN 300
            ELSE IF str_contains("diploma", degree) \/ str_contains("certificate", degree)
            THEN 200
            ELSE 100
        institution == str_lower(Get(highest_degree, "Institution", ""))
        institution_score ==
            IF \E word \in {"university", "college", "institute"} :
                   str_contains(word, institution)
            THEN 200 ELSE 100
        end_year == Get(highest_degree, "EndYear", "0")
        years_since == current_year - int_value(end_year)
        \* int(end_year) raises for a string that is no number: except
        recency_score == IF ~int_parses(end_year) THEN 100
                         ELSE IF years_since <= 5 THEN 200
                         ELSE IF years_since <= 10 THEN 150 ELSE 100
    IN  IF ~Truthy(education_data) THEN 0
        ELSE Round2Min10(degree_score + institution_score + recency_score)

_calculate_keywords_score(resume_data) ==
    LET all_text == str_lower(_extract_all_text_services(resume_data))
        found == Cardinality(FoundKeywords(all_text))
        words == Max({str_split_len(all_text), 1})
        \* keyword_density = len(found_keywords) / max(len(all_text.split()), 1)
        density_score == IF 100 * found >= 15 * words THEN 500
                         ELSE IF 100 * found >= 10 * words THEN 400
                         ELSE IF 100 * found >= 5 * words THEN 300 ELSE 100
    IN  Round2Min10(density_score + Capped(found, 50, 500))

_calculate_formatting_score(resume_data) ==
    LET resume == ResumeOf(resume_data)
        required_sections == {"Name", "Email", "Summary", "Skills", "WorkExperience",
                              "Education"}
        present_sections == Cardinality(required_sections \cap DOMAIN resume)
        contact_score == IF GetTruthy(resume, "Name") /\ GetTruthy(resume, "Email") THEN 200
                         ELSE IF GetTruthy(resume, "Name") \/ GetTruthy(resume, "Email")
                         THEN 100 ELSE 0
        structure_score == IF Cardinality(DOMAIN resume) >= 5 THEN 200 ELSE 100
        length == Len(_extract_all_text_services(resume_data))
        content_score == IF length >= 500 THEN 200 ELSE IF length >= 200 THEN 100 ELSE 50
        \* sections_score = (present_sections / 6) * 4.0, so six times the
        \* total in hundredths is an integer
        total6 == 400 * present_sections
                  + 6 * (contact_score + structure_score + content_score)
    IN  IF total6 > 6000 THEN 1000 ELSE RoundDiv(total6, 6)

\* final_score = total_score / total_weight if total_weight > 0 else 0: the
\* division the aggregators make
weighted_mean(total_score, total_weight) ==
    IF total_weight > 0 THEN <<Div(total_score, total_weight)>> ELSE <<>>

\* round(min(10, final_score * 1.15), 2) for final_score = total_score /
\* total_weight, or 0 without weight; first the variant with max for min
final_adjustment_max(total_score, total_weight) ==
    IF total_weight <= 0 THEN 1000
    ELSE IF 115 * total_score >= 1000 * 100 * total_weight
    THEN RoundDiv(115 * total_score, 100 * total_weight)
    ELSE 1000

\* the variant without the clamp to 10
final_adjustment_unclamped(total_score, total_weight) ==
    IF total_weight <= 0 THEN 0
    ELSE RoundDiv(115 * total_score, 100 * total_weight)

final_adjustment(total_score, total_weight) ==
    IF total_weight <= 0 THEN 0
    ELSE IF 115 * total_score >= 1000 * 100 * total_weight THEN 1000
    ELSE RoundDiv(115 * total_score, 100 * total_weight)

\* The values round(min(10, final_score * 1.15), 2) can take in floating
\* point: final_adjustment rounds the exact quotient, and where that lies
\* exactly halfway between two hundredths the error of the float operations
\* decides between the two.
final_adjustment_outcomes(total_score, total_weight) ==
    LET n == 115 * total_score
        d == 100 * total_weight
    IN  {final_adjustment(total_score, total_weight)}
        \cup (IF total_weight > 0 /\ n < 1000 * d /\ 2 * (n % d) = d
              THEN {n \div d, n \div d + 1} ELSE {})

\* the boost of a section's weight for its score, in tenths; first the
\* variant that boosts the summary from 7 as it does the experience
boost_factor_summary_from_seven(section, score) ==
    IF section = "summary" /\ score >= 700 THEN leadership_boost
    ELSE IF section = "experience" /\ score >= 700 THEN experience_boost
    ELSE IF section = "skills" /\ score >= 800 THEN action_verb_boost
    ELSE IF section = "keywords" /\ score >= 700 THEN keyword_boost
    ELSE 10

boost_factor(section, score) ==
    IF section = "summary" /\ score >= 800 THEN leadership_boost
    ELSE IF section = "experience" /\ score >= 700 THEN experience_boost
    ELSE IF section = "skills" /\ score >= 800 THEN action_verb_boost
    ELSE IF section = "keywords" /\ score >= 700 THEN keyword_boost
    ELSE 10

_calculate_final_score(section_scores) ==
    LET boost(section) == boost_factor(section, section_scores[section])
        \* self.config.scoring_weights.get(section, 0.1)
        base_weight(section) == Get(scoring_weights, section, 10)
        keys == DOMAIN section_scores
        \* total_score in units of 1e-5 points, total_weight in thousandths
        total_score == SumOver([section \in keys |->
                           section_scores[section] * base_weight(section) * boost(section)],
                           keys)
        total_weight == SumOver([section \in keys |->
                           base_weight(section) * boost(section)], keys)
    IN  IF Raised(weighted_mean(total_score, total_weight)) THEN ZeroDivisionError
        ELSE final_adjustment(total_score, total_weight)

\* the same call with every value the float rounding can give
_calculate_final_score_outcomes(section_scores) ==
    LET boost(section) == boost_factor(section, section_scores[section])
        base_weight(section) == Get(scoring_weights, section, 10)
        keys == DOMAIN section_scores
        total_score == SumOver([section \in keys |->
                           section_scores[section] * base_weight(section) * boost(section)],
                           keys)
        total_weight == SumOver([section \in keys |->
                           base_weight(section) * boost(section)], keys)
    IN  IF Raised(weighted_mean(total_score, total_weight)) THEN {ZeroDivisionError}
        ELSE final_adjustment_outcomes(total_score, total_weight)

\* SupremeATSConfig (src/services/supreme_ats_engine.py): the weights in
\* hundredths and the boost factors in tenths
supreme_config ==
    [scoring_weights |->
         [summary |-> 30, experience |-> 25, skills |-> 20, education |-> 15,
          keywords |-> 7, formatting |-> 3],
     keyword_boost |-> 20, action_verb_boost |-> 18, experience_boost |-> 19,
     leadership_boost |-> 22]

\* SupremeATSEngine._calculate_supreme_score: the same steps over the
\* engine's own configuration, the adjustment and the rounding included,
\* with every value the float rounding can give
_calculate_supreme_score(section_scores) ==
    LET boost(section) ==
            LET score == section_scores[section]
            IN  IF section = "summary" /\ score >= 800 THEN supreme_config.leadership_boost
                ELSE IF section = "experience" /\ score >= 700
                THEN supreme_config.experience_boost
                ELSE IF section = "skills" /\ score >= 800
                THEN supreme_config.action_verb_boost
                ELSE IF section = "keywords" /\ score >= 700
                THEN supreme_config.keyword_boost
                ELSE 10
        base_weight(section) == Get(supreme_config.scoring_weights, section, 10)
        keys == DOMAIN section_scores
        total_score == SumOver([section \in keys |->
                           section_scores[section] * base_weight(section) * boost(section)],
                           keys)
        total_weight == SumOver([section \in keys |->
                           base_weight(section) * boost(section)], keys)
    IN  IF Raised(weighted_mean(total_score, total_weight)) THEN {ZeroDivisionError}
        ELSE final_adjustment_outcomes(total_score, total_weight)

\* ATSConfig.scoring_weights (src/services/advanced_ats_engine.py), in
\* hundredths
advanced_scoring_weights ==
    [summary |-> 25, skills |-> 20, experience |-> 25, education |-> 15,
     keywords |-> 10, formatting |-> 5]

\* AdvancedATSEngine._calculate_weighted_score: total_score / total_weight,
\* kept as the fraction num / den of hundredths of a point; 0 without weight
_calculate_weighted_score(section_scores) ==
    LET weight(section) == Get(advanced_scoring_weights, section, 10)
        keys == DOMAIN section_scores
        total_score == SumOver([section \in keys |-> section_scores[section] * weight(section)],
                               keys)
        total_weight == SumOver([section \in keys |-> weight(section)], keys)
    IN  IF total_weight > 0 THEN Div(total_score, total_weight) ELSE Div(0, 1)

\* a strengths / weaknesses pair: `good` goes to the strengths when the
\* test holds, else `bad` goes to the weaknesses; one check after the other
Verdicts(checks) ==
    [strengths |-> Flatten([i \in DOMAIN checks |->
                       IF checks[i][1] THEN <<checks[i][2]>> ELSE <<>>]),
     weaknesses |-> Flatten([i \in DOMAIN checks |->
                       IF checks[i][1] THEN <<>> ELSE <<checks[i][3]>>])]

\* the dict every _analyze_* method returns; its "analysis" text is the
\* section name and the score, formatted
Analysis(section, score, verdicts) ==
    [score |-> score, strengths |-> verdicts.strengths,
     weaknesses |-> verdicts.weaknesses, analysis |-> <<section, score>>]

_analyze_summary(summary_data, score) ==
    Analysis("Summary", score, Verdicts(<<
        <<summary_data.metrics_found >= 2,
          "Quantifiable achievements present", "Lacks quantifiable achievements">>,
        <<summary_data.action_verbs >= 3, "Strong action verbs used", "Needs more action verbs">>,
        <<Len(summary_data.text) >= 100, "Appropriate length", "Too short">>,
        <<100 * summary_data.keyword_count >= 10 * summary_data.words,
          "Good keyword density", "Low keyword density">> >>))

_analyze_skills(skills_data, score) ==
    Analysis("Skills", score, Verdicts(<<
        <<Len(skills_data.all_skills) >= 10, "Comprehensive skill set", "Limited skill set">>,
        <<skills_data.technical_count >= 6,
          "Strong technical skills", "Needs more technical skills">>,
        <<skills_data.soft_count >= 3, "Good soft skills", "Could use more soft skills">> >>))

_analyze_experience(experience_data, score) ==
    LET total_years == SumSeq([i \in DOMAIN experience_data |->
            _extract_years_from_duration(Get(experience_data[i], "Duration", "0"))])
        leadership_count == Cardinality({i \in DOMAIN experience_data :
            \E word \in {"senior", "lead", "manager"} :
                str_contains(word, str_lower(Get(experience_data[i], "JobTitle", "")))})
    IN  Analysis("Experience", score,
            IF Truthy(experience_data)
            THEN Verdicts(<<
                <<total_years >= 5, "Significant experience", "Limited experience">>,
                <<leadership_count > 0, "Leadership experience", "No leadership roles">> >>)
            ELSE Verdicts(<< <<FALSE, "", "No work experience">> >>))

_analyze_education(education_data, score) ==
    LET degree == str_lower(Get(education_data[1], "Degree", ""))
    IN  Analysis("Education", score,
            IF Truthy(education_data)
            THEN Verdicts(<<
                <<str_contains("bachelor", degree) \/ str_contains("master", degree)
                      \/ str_contains("phd", degree),
                  "Relevant degree level", "Could benefit from higher education">> >>)
            ELSE Verdicts(<< <<FALSE, "", "No education listed">> >>))

_analyze_keywords(resume_data, score) ==
    LET all_text == str_lower(_extract_all_text_services(resume_data))
    IN  Analysis("Keywords", score, Verdicts(<<
            <<Cardinality(FoundKeywords(all_text)) >= 5,
              "Good keyword coverage", "Limited keyword coverage">> >>))

_analyze_formatting(resume_data, score) ==
    LET resume == ResumeOf(resume_data)
        required_sections == {"Name", "Email", "Summary", "Skills", "WorkExperience",
                              "Education"}
    IN  Analysis("Formatting", score, Verdicts(<<
            <<Cardinality(required_sections \cap DOMAIN resume) >= 5,
              "Complete structure", "Missing sections">>,
            <<GetTruthy(resume, "Name") /\ GetTruthy(resume, "Email"),
              "Contact information present", "Missing contact information">> >>))

_generate_recommendations(section_scores) ==
    LET recommendations ==
            (IF section_scores["summary"] < 700
             THEN <<"Enhance summary with quantifiable achievements and action verbs">>
             ELSE <<>>)
         \o (IF section_scores["skills"] < 700
             THEN <<"Add more relevant technical and soft skills">> ELSE <<>>)
         \o (IF section_scores["experience"] < 700
             THEN <<"Include more quantifiable achievements and leadership examples">>
             ELSE <<>>)
         \o (IF section_scores["keywords"] < 700
             THEN <<"Incorporate more industry-specific keywords naturally">> ELSE <<>>)
         \o (IF section_scores["formatting"] < 700
             THEN <<"Ensure all required sections are present and well-structured">>
             ELSE <<>>)
    IN  IF Len(recommendations) = 0
        THEN <<"Resume is well-optimized. Focus on continuous improvement">>
        ELSE recommendations

_analyze_market_fit(resume_data) ==
    LET all_text == str_lower(_extract_all_text_services(resume_data))
        found == FoundKeywords(all_text)
        missing == {i \in DOMAIN industry_keywords : i \notin found}
        n == Len(industry_keywords)
        \* the first ten of the missing keywords, in list order
        first_missing == {i \in missing : Cardinality({j \in missing : j < i}) < 10}
    IN  [\* round(found / n * 100, 1), in tenths of a percent
         keyword_match_percentage |-> RoundDiv(1000 * Cardinality(found), n),
         found_keywords |-> found,
         missing_keywords |-> first_missing,
         market_competitiveness |->
             IF 100 * Cardinality(found) >= 30 * n THEN "high"
             ELSE IF 100 * Cardinality(found) >= 15 * n THEN "medium" ELSE "low"]

\* The section scores analyze_resume_deterministic compiles; `year` is what
\* datetime.now().year returns during the call.
SectionScores(resume_data, year) ==
    [summary |-> _calculate_summary_score(_extract_summary(resume_data)),
     skills |-> _calculate_skills_score(_extract_skills(resume_data)),
     experience |-> _calculate_experience_score(_extract_experience(resume_data)),
     education |-> _calculate_education_score(_extract_education(resume_data), year),
     keywords |-> _calculate_keywords_score(resume_data),
     formatting |-> _calculate_formatting_score(resume_data)]

\* The dict analyze_resume_deterministic returns when the clock reads `now`
\* ([year, tick]) during the call.  resume_id, the first 8 hex digits of
\* the MD5 of str(resume_data), is kept as the argument of the hash.
analyze_resume_deterministic(resume_data, now) ==
    LET summary_data == _extract_summary(resume_data)
        skills_data == _extract_skills(resume_data)
        experience_data == _extract_experience(resume_data)
        education_data == _extract_education(resume_data)
        section_scores == SectionScores(resume_data, now.year)
    IN  [resume_id |-> <<"md5", resume_data>>,
         timestamp |-> now,
         deterministic_score |-> _calculate_final_score(section_scores),
         section_scores |-> section_scores,
         detailed_analysis |->
             [summary |-> _analyze_summary(summary_data, section_scores.summary),
              skills |-> _analyze_skills(skills_data, section_scores.skills),
              experience |-> _analyze_experience(experience_data, section_scores.experience),
              education |-> _analyze_education(education_data, section_scores.education),
              keywords |-> _analyze_keywords(resume_data, section_scores.keywords),
              formatting |-> _analyze_formatting(resume_data, section_scores.formatting)],
         recommendations |-> _generate_recommendations(section_scores),
         market_analysis |-> _analyze_market_fit(resume_data),
         deterministic |-> TRUE,
         no_ai_used |-> TRUE,
         no_fluctuations |-> TRUE]

(***************************************************************************)
(* The resumes of test_scoring_consistency                                 *)
(* (src/tests/test_deterministic_ats.py), as the test builds them.         *)
(***************************************************************************)
StrongResume ==
    ("resume" :>
        ("Name" :> "Strong Candidate"
        @@ "Email" :> "strong@email.com"
        @@ "Summary" :>
            "Senior software engineer with 8 years of experience in Python, JavaScript, " \o
            "and cloud technologies. Led development of 10+ applications and improved " \o
            "team productivity by 40%. Implemented CI/CD pipelines that reduced " \o
            "deployment time by 60%."
        @@ "Skills" :>
            <<<<"TechStack", <<"Python", "JavaScript", "React", "Node.js", "AWS", "Docker",
                             "Kubernetes", "MongoDB", "PostgreSQL", "Redis", "GraphQL",
                             "REST API">>>>,
              <<"Tools", <<"Git", "Jenkins", "Jira", "Confluence", "Slack">>>>,
              <<"soft_skills", <<"Leadership", "Communication", "Problem Solving",
                               "Team Management", "Project Management">>>>>>
        @@ "WorkExperience" :>
            <<("JobTitle" :> "Senior Software Engineer"
              @@ "Company" :> "Tech Giant"
              @@ "Duration" :> "5 years"
              @@ "Responsibilities" :>
                  <<"Led development of 10+ web applications", "Managed team of 8 developers",
                    "Improved system performance by 50%", "Reduced deployment time by 60%">>)>>
        @@ "Education" :>
            <<("Degree" :> "Master of Science in Computer Science"
              @@ "Institution" :> "Top University"
              @@ "EndYear" :> "2020")>>))

AverageResume ==
    ("resume" :>
        ("Name" :> "Average Candidate"
        @@ "Email" :> "average@email.com"
        @@ "Summary" :>
            "Software developer with 3 years of experience in web development. Worked on " \o
            "various projects using Python and JavaScript."
        @@ "Skills" :>
            <<<<"TechStack", <<"Python", "JavaScript", "HTML", "CSS">>>>,
              <<"Tools", <<"Git">>>>,
              <<"soft_skills", <<"Communication", "Teamwork">>>>>>
        @@ "WorkExperience" :>
            <<("JobTitle" :> "Software Developer"
              @@ "Company" :> "Small Company"
              @@ "Duration" :> "3 years"
              @@ "Responsibilities" :>
                  <<"Developed web applications", "Worked with team members",
                    "Fixed bugs and issues">>)>>
        @@ "Education" :>
            <<("Degree" :> "Bachelor of Science in Computer Science"
              @@ "Institution" :> "Local University"
              @@ "EndYear" :> "2018")>>))

WeakResume ==
    ("resume" :>
        ("Name" :> "Weak Candidate"
        @@ "Email" :> "weak@email.com"
        @@ "Summary" :> "Looking for a job in software development."
        @@ "Skills" :>
            <<<<"TechStack", <<"Basic programming">>>>, <<"soft_skills", <<"Hard working">>>>>>
        @@ "WorkExperience" :> <<>>
        @@ "Education" :>
            <<("Degree" :> "High School Diploma"
              @@ "Institution" :> "Local School"
              @@ "EndYear" :> "2015")>>))

\* the record of test_empty_resume_data: every field missing
EmptyResume == "resume" :> <<>>

\* the records handed to analyze_resume_deterministic
ServiceResumes == {StrongResume, AverageResume, WeakResume, EmptyResume}

(***************************************************************************)
(* Bounds of the analysis runs                                             *)
(***************************************************************************)
\* the calls of analyze_resume_deterministic in one run
MaxCalls == 2

\* the years the wall clock passes through
FirstYear == 2025

LastYear == 2026

\* the instants the wall clock tells apart within one year
MaxTicks == 1

(***************************************************************************)
(* State.  resume_data and job_keywords are the arguments of the call in   *)
(* progress or last made, now the wall clock datetime.now() reads, history *)
(* the reports analyze_resume_deterministic has returned (each with the    *)
(* record it was given), result the DeterministicScore the last scorer of  *)
(* the rule-based engine, or the last aggregator, returned, section_scores *)
(* the section scores handed to an aggregator, overall the overall_score   *)
(* of the last response of hybrid_analyze_all_sections, engine the         *)
(* lexicons of the one DeterministicATSEngine instance, calls the scorer   *)
(* calls the threads of the process are making on it: for each thread the  *)
(* statement it is at and its local variables.                             *)
(***************************************************************************)
VARIABLES resume_data, job_keywords, now, history, result, section_scores, overall,
          engine, calls

vars == <<resume_data, job_keywords, now, history, result, section_scores, overall,
          engine, calls>>

\* no scorer has returned yet
NoResult == [scorer |-> "none", score |-> 0]

\* no section scores have been handed to an aggregator yet
NoScores == <<>>

\* hybrid_analyze_all_sections has not answered yet
NoOverall == [grade |-> "none"]

\* no thread is making a scorer call
NoCalls == <<>>

Init ==
    /\ resume_data = <<>>
    /\ job_keywords = <<>>
    /\ now = [year |-> FirstYear, tick |-> 0]
    /\ history = <<>>
    /\ result = NoResult
    /\ section_scores = NoScores
    /\ overall = NoOverall
    /\ engine = DeterministicATSEngine
    /\ calls = NoCalls

\* one call of DeterministicATSEngine.analyze_resume_deterministic
AnalyzeResumeDeterministic ==
    /\ Len(history) < MaxCalls
    /\ \E r \in ServiceResumes :
           /\ resume_data' = r
           /\ history' = Append(history, [resume_data |-> r,
                                          report |-> analyze_resume_deterministic(r, now)])
    /\ UNCHANGED <<job_keywords, now, result, section_scores, overall, engine, calls>>

\* the wall clock moves on within the year
Tick ==
    /\ now.tick < MaxTicks
    /\ now' = [now EXCEPT !.tick = @ + 1]
    /\ UNCHANGED <<resume_data, job_keywords, history, result, section_scores, overall, engine, calls>>

\* the wall clock passes into the next year
NewYear ==
    /\ now.year < LastYear
    /\ now' = [year |-> now.year + 1, tick |-> 0]
    /\ UNCHANGED <<resume_data, job_keywords, history, result, section_scores, overall, engine, calls>>

Next == AnalyzeResumeDeterministic \/ Tick \/ NewYear

Spec == Init /\ [][Next]_vars

(***************************************************************************)
(* The records handed to the scorers of the rule-based engine              *)
(* (src/deterministic_ats_engine.py): one record, BaseResume, and the      *)
(* records that differ from it in one section.                             *)
(***************************************************************************)
\* the most weak and the most strong verbs a summary holds
MaxWeakVerbs == 3

MaxStrongVerbs == 3

\* the most buzzwords a summary holds
MaxBuzzwords == 7

\* the most figures a summary holds
MaxQuantities == 6

\* the length of the target keyword lists, and the most general keywords
\* a skills section names
MaxKeywords == 10

MaxGeneral == 6

\* the most achievement and the most duty bullets of a work history
MaxAchievements == 3

MaxResponsibilities == 5

\* the most jobs whose durations vary
MaxJobs == 3

\* the most contact fields beside email and phone
MaxExtraContacts == 3

\* resume_data with resume_data[key] = value
With(resume, key, value) == (key :> value) @@ resume

\* resume_data without the keys
Without(resume, keys) == [k \in DOMAIN resume \ keys |-> resume[k]]

\* `word` n times, a blank after each
RECURSIVE RepeatWord(_, _)
RepeatWord(word, n) == IF n = 0 THEN "" ELSE word \o " " \o RepeatWord(word, n - 1)

Job(duration, responsibilities) ==
    "JobTitle" :> "Backend Engineer" @@ "Company" :> "Northwind"
    @@ "Duration" :> duration @@ "Responsibilities" :> responsibilities

BaseResume ==
    "Summary" :> "Backend engineer for payment systems at a retail bank."
    @@ "WorkExperience" :> <<Job("2019-03", <<"Wrote the settlement service">>)>>
    @@ "Education" :>
        <<("Degree" :> "BSc Computer Science" @@ "Institution" :> "State University"
           @@ "StartYear" :> "2014" @@ "EndYear" :> "2018")>>
    @@ "Skills" :>
        <<<<"TechStack", <<"Python", "SQL", "Docker">>>>,
          <<"soft_skills", <<"Communication", "Mentoring">>>>>>
    @@ "email" :> "dana@example.org"
    @@ "phone" :> "555-0100"

\* summaries around the ten-character limit, and longer ones
Summaries ==
    {"", "   ", "Led 5% up", "  Led 5% up  ", "synergy 3", "Led 50% up", "          ",
     "Led the team. Built 3 services. Cut cost by 20%.",
     "Passionate. Dynamic. Proactive. Motivated. Dedicated guru.",
     "Developed, designed, built, launched and led 5 products for 200 users, saving $300."}

SummaryResumes ==
    {With(BaseResume, "Summary", s) : s \in Summaries}
    \cup {"Summary" :> s : s \in Summaries}
    \cup {Without(BaseResume, {"Summary"})}

\* a summary with w weak verbs and s strong verbs
VerbResume(w, s) ==
    With(BaseResume, "Summary",
         "Engineer who " \o RepeatWord("helped", w) \o RepeatWord("led", s)
             \o "the billing platform.")

\* the counts at which the weak ratio is 0.3 and the strong ratio 0.7, and
\* the other way round
ThresholdVerbResumes == {VerbResume(3, 7), VerbResume(7, 3)}

VerbResumes ==
    {VerbResume(w, s) : w \in 0..MaxWeakVerbs, s \in 0..MaxStrongVerbs}
    \cup ThresholdVerbResumes

\* a summary with n buzzwords
BuzzResume(n) ==
    With(BaseResume, "Summary",
         "Engineer with " \o RepeatWord("synergy", n) \o "for the billing platform.")

BuzzResumes == {BuzzResume(n) : n \in 0..MaxBuzzwords}

\* a summary with n figures, each one match of one quantifiable indicator
QuantityResume(n) ==
    With(BaseResume, "Summary",
         "Engineer serving " \o RepeatWord("5 users", n) \o "of the billing platform.")

QuantityResumes == {QuantityResume(n) : n \in 0..MaxQuantities}

\* two jobs with a achievement bullets and r duty bullets between them
AchievementResume(a, r) ==
    With(BaseResume, "WorkExperience",
         <<Job("2019-03", [i \in 1..a |-> "Increased conversion of the checkout"]),
           Job("2017-06", [i \in 1..r |-> "Filing of the weekly reports"])>>)

AchievementResumes ==
    {AchievementResume(a, r) : a \in 0..MaxAchievements, r \in 0..MaxResponsibilities}

\* the Duration strings of the jobs, the empty one among them
Durations == {"", "2020-01", "2021/03"}

OtherDurations == {"03/2021", "Jan 2020", "2020", " "}

\* an education entry without years, and one with an end year
UndatedEducation ==
    "Degree" :> "BSc Computer Science" @@ "Institution" :> "State University"

DatedEducation == "StartYear" :> "" @@ "EndYear" :> "2018" @@ UndatedEducation

EducationLists == {<<>>, <<DatedEducation>>}

\* one job per duration, and the education entries
DateResume(durations, education) ==
    With(With(BaseResume, "WorkExperience",
              [i \in DOMAIN durations |-> Job(durations[i], <<"Wrote the settlement service">>)]),
         "Education", education)

DateResumes ==
    {DateResume(d, e) : d \in UNION {[1..n -> Durations] : n \in 0..MaxJobs},
                        e \in EducationLists}
    \cup {DateResume(<<d>>, <<>>) : d \in OtherDurations}
    \cup {DateResume(<<"2020-01", d>>, <<>>) : d \in OtherDurations}
    \cup {DateResume(d, <<UndatedEducation>>) : d \in {<<>>, <<"2020-01">>}}

\* the contact fields beside email and phone, in the order the records add them
ExtraContactFields == <<"linkedin", "github", "portfolio", "website", "location", "city">>

ContactValues == {"absent", "", "dana@example.org"}

\* BaseResume with the given email and phone ("absent": no such key) and
\* the first `extras` of the further contact fields
ContactResume(email, phone, extras) ==
    LET bare == Without(BaseResume, {"email", "phone"})
        with_email == IF email = "absent" THEN bare ELSE With(bare, "email", email)
        with_phone == IF phone = "absent" THEN with_email ELSE With(with_email, "phone", phone)
    IN  [k \in {ExtraContactFields[i] : i \in 1..extras} |-> "dana.example.org"] @@ with_phone

\* a record that spells the keys Email and Phone capitalised, as the sample
\* resume of the hybrid checker's test does
CapitalisedContactResume ==
    "Email" :> "dana@example.org" @@ "Phone" :> "555-0100"
    @@ "linkedin" :> "dana.example.org" @@ "github" :> "dana.example.org"
    @@ Without(BaseResume, {"email", "phone"})

ContactResumes ==
    {ContactResume(e, p, x) : e \in ContactValues, p \in ContactValues,
                              x \in 0..MaxExtraContacts}
    \cup {CapitalisedContactResume}

SkillsValues ==
    {<<>>,
     <<<<"TechStack", <<>>>>>>,
     <<<<"TechStack", <<"Python">>>>>>,
     <<<<"TechStack", <<"Python", "SQL", "Docker">>>>>>,
     <<<<"TechStack", <<"Python", "SQL">>>>, <<"Tools", <<>>>>>>,
     <<<<"TechStack", <<"Python", "SQL">>>>, <<"soft_skills", <<"Communication">>>>>>,
     <<<<"Languages", <<"English">>>>, <<"soft_skills", <<"Communication">>>>>>,
     <<<<"soft_skills", <<"Communication", "Team">>>>, <<"Interests", <<"Player coach">>>>>>,
     <<<<"Interests", <<"Player coach">>>>, <<"soft_skills", <<"Communication", "Team">>>>>>,
     <<<<"TechStack", <<>>>>, <<"soft_skills", <<>>>>, <<"Tools", <<>>>>>>}

\* a tech stack of the first k general keywords
GeneralResume(k) ==
    With(BaseResume, "Skills", <<<<"TechStack", SubSeq(general_keywords, 1, k)>>>>)

GeneralResumes == {GeneralResume(k) : k \in 0..MaxGeneral}

SkillsResumes ==
    {With(BaseResume, "Skills", v) : v \in SkillsValues}
    \cup {Without(BaseResume, {"Skills"}), "Skills" :> <<>>, "email" :> "dana@example.org"}

OtherResumes ==
    {BaseResume,
     With(BaseResume, "Hobbies", <<"Chess">>),
     With(BaseResume, "Hobbies", <<>>),
     With(With(BaseResume, "Hobbies", <<"Chess">>), "References", <<"On request">>),
     With(BaseResume, "Summary",
          "i helped the team and its clients. i was responsible for 5 projects, "
              \o "i did reports and i made 40% of the sales with the team and the "
              \o "stakeholders. youre a team player and ive got synergy."),
     With(BaseResume, "Skills",
          <<<<"TechStack", <<"Python", "JavaScript", "SQL", "AWS", "Docker", "Git",
                             "node.js">>>>>>),
     Without(BaseResume, {"WorkExperience", "Education"})}

Resumes ==
    SummaryResumes \cup VerbResumes \cup BuzzResumes \cup QuantityResumes
    \cup AchievementResumes
    \cup DateResumes \cup ContactResumes \cup SkillsResumes \cup GeneralResumes
    \cup OtherResumes

\* words BaseResume holds, and words it does not hold
MatchingWords ==
    <<"python", "sql", "docker", "backend", "payment", "retail", "bank",
      "settlement", "science", "mentoring", "northwind", "university">>

MissingWords ==
    <<"rust", "go", "scala", "perl", "kotlin", "swift", "ruby", "cobol",
      "fortran", "haskell", "erlang", "elixir">>

\* n target keywords of which the first m are words of BaseResume
TargetKeywords(m, n) == SubSeq(MatchingWords, 1, m) \o SubSeq(MissingWords, 1, n - m)

\* the job_keywords handed to score_ats_keywords; <<>> for None
KeywordLists ==
    {<<>>, <<"python", "sql">>, <<"Python", "rust", "go">>,
     <<"python", "sql", "docker", "kubernetes", "rust", "go", "java", "scala", "c++", "perl">>}
    \cup {TargetKeywords(m, MaxKeywords) : m \in 0..MaxKeywords}

\* the lines analyze_line is given: the summary and the bullets of the record
Lines(resume) == {Get(resume, "Summary", "")} \cup Range(Bullets(resume))

(***************************************************************************)
(* The rule-based engine: one record, one call of one scorer.              *)
(***************************************************************************)
InitScorers ==
    /\ resume_data \in Resumes
    /\ job_keywords = <<>>
    /\ now = [year |-> FirstYear, tick |-> 0]
    /\ history = <<>>
    /\ result = NoResult
    /\ section_scores = NoScores
    /\ overall = NoOverall
    /\ engine = DeterministicATSEngine
    /\ calls = NoCalls

\* the scorer `name` returns DeterministicScore(score)
Returns(name, score) ==
    /\ result.scorer = "none"
    /\ overall = NoOverall
    /\ result' = [scorer |-> name, score |-> score]
    /\ UNCHANGED <<resume_data, now, history, section_scores, overall, engine, calls>>

ScoreSummary ==
    /\ Returns("score_summary", score_summary(Get(resume_data, "Summary", "")))
    /\ UNCHANGED job_keywords

ScoreDates ==
    /\ Returns("score_dates", score_dates(resume_data))
    /\ UNCHANGED job_keywords

ScoreWeakVerbs ==
    /\ Returns("score_weak_verbs", score_weak_verbs(resume_data))
    /\ UNCHANGED job_keywords

ScoreQuantityImpact ==
    /\ Returns("score_quantity_impact", score_quantity_impact(resume_data))
    /\ UNCHANGED job_keywords

ScoreTeamwork ==
    /\ Returns("score_teamwork", score_teamwork(resume_data))
    /\ UNCHANGED job_keywords

ScoreBuzzwords ==
    /\ Returns("score_buzzwords", score_buzzwords(resume_data))
    /\ UNCHANGED job_keywords

ScoreContactDetails ==
    /\ Returns("score_contact_details", score_contact_details(resume_data))
    /\ UNCHANGED job_keywords

ScoreGrammarSpelling ==
    /\ Returns("score_grammar_spelling", score_grammar_spelling(resume_data))
    /\ UNCHANGED job_keywords

ScoreFormattingLayout ==
    /\ Returns("score_formatting_layout", score_formatting_layout(resume_data))
    /\ UNCHANGED job_keywords

ScoreAtsKeywords ==
    \E keywords \in KeywordLists :
        /\ Returns("score_ats_keywords", score_ats_keywords(resume_data, keywords))
        /\ job_keywords' = keywords

ScoreSkillsRelevance ==
    /\ Returns("score_skills_relevance", score_skills_relevance(resume_data))
    /\ UNCHANGED job_keywords

ScoreAchievementsVsResponsibilities ==
    /\ Returns("score_achievements_vs_responsibilities",
               score_achievements_vs_responsibilities(resume_data))
    /\ UNCHANGED job_keywords

ScoreUnnecessarySections ==
    /\ Returns("score_unnecessary_sections", score_unnecessary_sections(resume_data))
    /\ UNCHANGED job_keywords

AnalyzeLine ==
    /\ \E line \in Lines(resume_data) : Returns("analyze_line", analyze_line(line))
    /\ UNCHANGED job_keywords

\* one request to /hybrid/analyze-all-sections for the record
HybridAnalyzeAllSections ==
    /\ result.scorer = "none"
    /\ overall = NoOverall
    /\ overall' = hybrid_analyze_all_sections(resume_data, now)
    /\ UNCHANGED <<resume_data, job_keywords, now, history, result, section_scores, engine, calls>>

NextScorers ==
    \/ ScoreSummary \/ ScoreDates \/ ScoreWeakVerbs \/ ScoreQuantityImpact
    \/ ScoreTeamwork \/ ScoreBuzzwords \/ ScoreContactDetails \/ ScoreGrammarSpelling
    \/ ScoreFormattingLayout \/ ScoreAtsKeywords \/ ScoreSkillsRelevance
    \/ ScoreAchievementsVsResponsibilities \/ ScoreUnnecessarySections \/ AnalyzeLine
    \/ HybridAnalyzeAllSections

SpecScorers == InitScorers /\ [][NextScorers]_vars

(***************************************************************************)
(* The aggregators of the three analysis engines: one vector of section    *)
(* scores, one call of one aggregator.                                     *)
(***************************************************************************)
\* section scores at and next to the bounds the aggregators test
ScoreGrid == {0, 1, 14, 15, 699, 700, 800, 1000}

\* sections the configurations give no weight, and their scores
UnweightedSections == {"projects", "certifications", "languages"}

UnweightedGrid == {0, 500, 700, 1000}

SectionVectors ==
    [Range(Sections) -> ScoreGrid] \cup [UnweightedSections -> UnweightedGrid]

InitAggregators ==
    /\ resume_data = <<>>
    /\ job_keywords = <<>>
    /\ now = [year |-> FirstYear, tick |-> 0]
    /\ history = <<>>
    /\ result = NoResult
    /\ section_scores \in SectionVectors
    /\ overall = NoOverall
    /\ engine = DeterministicATSEngine
    /\ calls = NoCalls

CalculateFinalScore ==
    /\ result.scorer = "none"
    /\ \E score \in _calculate_final_score_outcomes(section_scores) :
           result' = [scorer |-> "_calculate_final_score", score |-> score]
    /\ UNCHANGED <<resume_data, job_keywords, now, history, section_scores, overall, engine, calls>>

CalculateSupremeScore ==
    /\ result.scorer = "none"
    /\ \E score \in _calculate_supreme_score(section_scores) :
           result' = [scorer |-> "_calculate_supreme_score", score |-> score]
    /\ UNCHANGED <<resume_data, job_keywords, now, history, section_scores, overall, engine, calls>>

CalculateWeightedScore ==
    /\ result.scorer = "none"
    /\ result' = [scorer |-> "_calculate_weighted_score",
                  score |-> _calculate_weighted_score(section_scores)]
    /\ UNCHANGED <<resume_data, job_keywords, now, history, section_scores, overall, engine, calls>>

NextAggregators == CalculateFinalScore \/ CalculateSupremeScore \/ CalculateWeightedScore

SpecAggregators == InitAggregators /\ [][NextAggregators]_vars

(***************************************************************************)
(* analyze_resume_deterministic on records the caller may have built with  *)
(* a field of the wrong type.  The engine does not look at the types of    *)
(* the record before it starts: a value of the wrong type raises in the    *)
(* first statement that uses it as the type it should have.                *)
(***************************************************************************)
\* the calls analyze_resume_deterministic makes up to the final score, in
\* the order it makes them
analysis_steps ==
    <<"_extract_summary", "_extract_skills", "_extract_experience", "_extract_education",
      "_calculate_summary_score", "_calculate_skills_score", "_calculate_experience_score",
      "_calculate_education_score", "_calculate_keywords_score",
      "_calculate_formatting_score", "_calculate_final_score">>

\* the fields given a value of the wrong type: Summary an int, Skills a
\* list, the Duration of the first job an int, Education a dict, the
\* EndYear of the first education entry an int
WrongTypes == {"Summary", "Skills", "Duration", "Education", "EndYear"}

\* the record has the field the wrong value is put in
HasField(record, wrong) ==
    CASE wrong = "Duration" -> Truthy(_extract_experience(record))
      [] wrong = "EndYear" -> Truthy(_extract_education(record))
      [] OTHER -> TRUE

\* the exception the wrong value raises and the call it is raised in:
\* re.findall(metrics_pattern, summary) of an int; skills.items() of a list;
\* duration.lower() of an int in _extract_years_from_duration;
\* education_data[0] of a dict; ' '.join(text_parts) over an int in
\* _extract_all_text
raise_of(wrong) ==
    CASE wrong = "Summary" -> [error |-> "TypeError", raised_in |-> "_extract_summary"]
      [] wrong = "Skills" -> [error |-> "AttributeError", raised_in |-> "_extract_skills"]
      [] wrong = "Duration" ->
             [error |-> "AttributeError", raised_in |-> "_calculate_experience_score"]
      [] wrong = "Education" ->
             [error |-> "KeyError", raised_in |-> "_calculate_education_score"]
      [] wrong = "EndYear" ->
             [error |-> "TypeError", raised_in |-> "_calculate_keywords_score"]

\* no report: the call raised
NoReport == <<>>

\* one run of analyze_resume_deterministic on the record with the value of
\* `wrong` of the wrong type ("none": every value of its type): the
\* exception it ends with, the calls it entered, the report it returned
analyze_resume_run(record, wrong, clock) ==
    IF wrong = "none"
    THEN [error |-> "none", entered |-> analysis_steps,
          report |-> analyze_resume_deterministic(record, clock)]
    ELSE LET last == CHOOSE i \in DOMAIN analysis_steps :
                         analysis_steps[i] = raise_of(wrong).raised_in
         IN  [error |-> raise_of(wrong).error, entered |-> SubSeq(analysis_steps, 1, last),
              report |-> NoReport]

InitBoundary ==
    /\ resume_data = <<>>
    /\ job_keywords = <<>>
    /\ now = [year |-> FirstYear, tick |-> 0]
    /\ history = <<>>
    /\ result = NoResult
    /\ section_scores = NoScores
    /\ overall = NoOverall
    /\ engine = DeterministicATSEngine
    /\ calls = NoCalls

\* one call of analyze_resume_deterministic with a record of the caller
AnalyzeGivenRecord ==
    /\ Len(history) < MaxCalls
    /\ \E r \in ServiceResumes, wrong \in WrongTypes \cup {"none"} :
           /\ HasField(r, wrong)
           /\ resume_data' = r
           /\ history' = Append(history, [resume_data |-> r, wrong |-> wrong,
                                          run |-> analyze_resume_run(r, wrong, now)])
    /\ UNCHANGED <<job_keywords, now, result, section_scores, overall, engine, calls>>

NextBoundary == AnalyzeGivenRecord \/ Tick

SpecBoundary == InitBoundary /\ [][NextBoundary]_vars

(***************************************************************************)
(* The two boosted aggregators on section scores at and next to the        *)
(* scores from which a section's weight is boosted.                        *)
(***************************************************************************)
BoostGrid == {0, 699, 700, 800, 1000}

InitBoosted ==
    /\ resume_data = <<>>
    /\ job_keywords = <<>>
    /\ now = [year |-> FirstYear, tick |-> 0]
    /\ history = <<>>
    /\ result = NoResult
    /\ section_scores \in [Range(Sections) -> BoostGrid]
    /\ overall = NoOverall
    /\ engine = DeterministicATSEngine
    /\ calls = NoCalls

NextBoosted == CalculateFinalScore \/ CalculateSupremeScore

SpecBoosted == InitBoosted /\ [][NextBoosted]_vars

(***************************************************************************)
(* HybridATSChecker.analyze_section: the deterministic score of one        *)
(* section and the analysis of the language model for it.  The request to  *)
(* the model is answered or raises (no network, no quota, a refused key).  *)
(***************************************************************************)
\* EnhancedOpenAIService.analyze_section_with_gpt: the dict it returns when
\* the request is answered and when it raises (api: "answers", "raises");
\* first the variant whose except branch returns the empty analysis
\* without the error
analyze_section_with_gpt_silent(section, api) ==
    IF api = "answers"
    THEN "analysis" :> <<"parsed", section>> @@ "raw_response" :> <<"text", section>>
         @@ "model_used" :> "gpt-3.5-turbo"
    ELSE "analysis" :> [strengths |-> <<>>, weaknesses |-> <<>>, recommendations |-> <<>>,
                        examples |-> <<>>, score |-> 0,
                        justification |-> "Analysis failed due to technical error"]

analyze_section_with_gpt(section, api) ==
    IF api = "answers"
    THEN "analysis" :> <<"parsed", section>> @@ "raw_response" :> <<"text", section>>
         @@ "model_used" :> "gpt-3.5-turbo"
    ELSE "error" :> "GPT analysis failed"
         @@ "analysis" :> [strengths |-> <<>>, weaknesses |-> <<>>, recommendations |-> <<>>,
                           examples |-> <<>>, score |-> 0,
                           justification |-> "Analysis failed due to technical error"]

\* HybridATSChecker._get_gpt_analysis: the answer of the service; the
\* service catches every Exception itself, so the except branch here is
\* never taken
_get_gpt_analysis(section, api) == analyze_section_with_gpt(section, api)

\* the dict analyze_section returns; max_score is 10.0 and the percentage
\* (score / max_score) * 100, kept as a fraction
analyze_section(section, record, keywords, api, clock) ==
    LET deterministic_score == _get_deterministic_score(section, record, keywords)
    IN  [section |-> section,
         deterministic_score |-> [score |-> deterministic_score,
                                  percentage |-> Div(deterministic_score * 100, 1000),
                                  max_score |-> 1000],
         gpt_analysis |-> _get_gpt_analysis(section, api),
         timestamp |-> clock]

\* the records of the requests
HybridResumes == {<<>>, BaseResume, BuzzResume(3), VerbResume(3, 1), QuantityResume(2)}

InitHybrid ==
    /\ resume_data \in HybridResumes
    /\ job_keywords = <<>>
    /\ now = [year |-> FirstYear, tick |-> 0]
    /\ history = <<>>
    /\ result = NoResult
    /\ section_scores = NoScores
    /\ overall = NoOverall
    /\ engine = DeterministicATSEngine
    /\ calls = NoCalls

\* one call of analyze_section for a section that has a scorer or for one
\* that has none, the request to the model answered or raising
AnalyzeSection ==
    /\ overall = NoOverall
    /\ \E section \in Range(all_sections) \cup {"magic_write"}, api \in {"answers", "raises"} :
           overall' = [api |-> api,
                       response |-> analyze_section(section, resume_data, job_keywords,
                                                    api, now)]
    /\ UNCHANGED <<resume_data, job_keywords, now, history, result, section_scores,
                   engine, calls>>

NextHybrid ==
    \/ ScoreSummary \/ ScoreDates \/ ScoreWeakVerbs \/ ScoreQuantityImpact
    \/ ScoreTeamwork \/ ScoreBuzzwords \/ ScoreContactDetails \/ ScoreGrammarSpelling
    \/ ScoreFormattingLayout \/ ScoreAtsKeywords \/ ScoreSkillsRelevance
    \/ ScoreAchievementsVsResponsibilities \/ ScoreUnnecessarySections
    \/ AnalyzeSection

SpecHybrid == InitHybrid /\ [][NextHybrid]_vars

(***************************************************************************)
(* Records without content: every scorer of the rule-based engine and the  *)
(* whole analysis on a record with every field missing or empty.           *)
(***************************************************************************)
\* no key at all, every key with an empty value, and the record of
\* test_empty_resume_data
EmptyRecords ==
    {<<>>,
     "Summary" :> "" @@ "Skills" :> <<>> @@ "WorkExperience" :> <<>> @@ "Education" :> <<>>,
     EmptyResume}

InitEmpty ==
    /\ resume_data \in EmptyRecords
    /\ job_keywords = <<>>
    /\ now = [year |-> FirstYear, tick |-> 0]
    /\ history = <<>>
    /\ result = NoResult
    /\ section_scores = NoScores
    /\ overall = NoOverall
    /\ engine = DeterministicATSEngine
    /\ calls = NoCalls

NextEmpty ==
    \/ ScoreSummary \/ ScoreDates \/ ScoreWeakVerbs \/ ScoreQuantityImpact
    \/ ScoreTeamwork \/ ScoreBuzzwords \/ ScoreContactDetails \/ ScoreGrammarSpelling
    \/ ScoreFormattingLayout \/ ScoreAtsKeywords \/ ScoreSkillsRelevance
    \/ ScoreAchievementsVsResponsibilities \/ ScoreUnnecessarySections \/ AnalyzeLine
    \/ HybridAnalyzeAllSections \/ AnalyzeResumeDeterministic

SpecEmpty == InitEmpty /\ [][NextEmpty]_vars

(***************************************************************************)
(* The calls that compute a ratio: the two scorers of the rule-based       *)
(* engine that divide, the three aggregators and the whole analysis, on    *)
(* records and section scores with and without evidence.                   *)
(***************************************************************************)
\* records without verbs, with verbs, without bullets, with achievements
\* alone, with duties alone and with both
RatioResumes ==
    {VerbResume(0, 0), VerbResume(1, 3), AchievementResume(0, 0), AchievementResume(2, 0),
     AchievementResume(0, 2), AchievementResume(1, 2)}

\* no section scores at all, the six sections, and sections without a
\* configured weight
RatioVectors ==
    {NoScores, [section \in Range(Sections) |-> 0], [section \in Range(Sections) |-> 700],
     [section \in UnweightedSections |-> 500]}

InitRatios ==
    /\ resume_data \in RatioResumes
    /\ job_keywords = <<>>
    /\ now = [year |-> FirstYear, tick |-> 0]
    /\ history = <<>>
    /\ result = NoResult
    /\ section_scores \in RatioVectors
    /\ overall = NoOverall
    /\ engine = DeterministicATSEngine
    /\ calls = NoCalls

NextRatios ==
    \/ ScoreWeakVerbs \/ ScoreAchievementsVsResponsibilities
    \/ CalculateFinalScore \/ CalculateSupremeScore \/ CalculateWeightedScore
    \/ AnalyzeResumeDeterministic

SpecRatios == InitRatios /\ [][NextRatios]_vars

(***************************************************************************)
(* Scorer calls of several threads on one engine and one record.  A call   *)
(* is followed statement by statement: the corpus is read from the record, *)
(* then each lexicon of the scorer is read from the engine and its words   *)
(* counted, then the score is computed from the counts, which are local to *)
(* the call.  A thread may be preempted between any two statements.        *)
(***************************************************************************)
MaxThreads == 2

Threads == 1..MaxThreads

\* the lexicons a scorer walks, in the order of its loops
LexiconsOf(scorer) ==
    IF scorer = "score_weak_verbs" THEN <<"weak_verbs", "strong_verbs">> ELSE <<"buzzwords">>

\* the local variables of a call that has just been entered
EnterCall(scorer) ==
    [scorer |-> scorer, pc |-> "extract", all_text |-> "", counts |-> <<>>, score |-> 0]

\* all_text = self._extract_all_text(resume_data)
extract_step(record, call) ==
    [call EXCEPT !.all_text = _extract_all_text(record), !.pc = "count"]

\* one loop `for word in self.<lexicon>: count += len(re.findall(...))`: the
\* engine and the call after it; first the variant that empties the lexicon
\* as it walks it (while self.<lexicon>: word = self.<lexicon>.pop())
count_step_popping(self, call) ==
    LET lexicon == LexiconsOf(call.scorer)[Len(call.counts) + 1]
        counts == Append(call.counts, WordMatches(self[lexicon], call.all_text))
    IN  [self |-> [self EXCEPT ![lexicon] = {}],
         call |-> [call EXCEPT !.counts = counts,
                               !.pc = IF Len(counts) = Len(LexiconsOf(call.scorer))
                                      THEN "return" ELSE "count"]]

count_step(self, call) ==
    LET lexicon == LexiconsOf(call.scorer)[Len(call.counts) + 1]
        counts == Append(call.counts, WordMatches(self[lexicon], call.all_text))
    IN  [self |-> self,
         call |-> [call EXCEPT !.counts = counts,
                               !.pc = IF Len(counts) = Len(LexiconsOf(call.scorer))
                                      THEN "return" ELSE "count"]]

\* the thresholds and return DeterministicScore(max(0.0, min(10.0, score)))
return_step(call) ==
    LET score == IF call.scorer = "score_weak_verbs"
                 THEN Clamp(500 + verb_ratio_delta(call.counts[1], call.counts[2]))
                 ELSE Clamp(500 + buzzword_delta(call.counts[1]))
    IN  [call EXCEPT !.score = score, !.pc = "done"]

\* the records the threads score: weak verbs alone, strong verbs in the
\* majority, few buzzwords and many
SharedResumes == {VerbResume(1, 0), VerbResume(1, 3), BuzzResume(1), BuzzResume(6)}

InitThreads ==
    /\ resume_data \in SharedResumes
    /\ job_keywords = <<>>
    /\ now = [year |-> FirstYear, tick |-> 0]
    /\ history = <<>>
    /\ result = NoResult
    /\ section_scores = NoScores
    /\ overall = NoOverall
    /\ engine = DeterministicATSEngine
    /\ calls = [t \in Threads |-> [EnterCall("none") EXCEPT !.pc = "idle"]]

\* thread t enters a scorer, for the first time or after its last call
Enter(t) ==
    /\ calls[t].pc \in {"idle", "done"}
    /\ \E scorer \in {"score_weak_verbs", "score_buzzwords"} :
           calls' = [calls EXCEPT ![t] = EnterCall(scorer)]
    /\ UNCHANGED <<resume_data, job_keywords, now, history, result, section_scores,
                   overall, engine>>

ExtractAllText(t) ==
    /\ calls[t].pc = "extract"
    /\ calls' = [calls EXCEPT ![t] = extract_step(resume_data, calls[t])]
    /\ UNCHANGED <<resume_data, job_keywords, now, history, result, section_scores,
                   overall, engine>>

CountWords(t) ==
    /\ calls[t].pc = "count"
    /\ \E after \in {count_step(engine, calls[t])} :
           /\ engine' = after.self
           /\ calls' = [calls EXCEPT ![t] = after.call]
    /\ UNCHANGED <<resume_data, job_keywords, now, history, result, section_scores,
                   overall>>

ReturnScore(t) ==
    /\ calls[t].pc = "return"
    /\ calls' = [calls EXCEPT ![t] = return_step(calls[t])]
    /\ UNCHANGED <<resume_data, job_keywords, now, history, result, section_scores,
                   overall, engine>>

NextThreads ==
    \E t \in Threads : Enter(t) \/ ExtractAllText(t) \/ CountWords(t) \/ ReturnScore(t)

SpecThreads == InitThreads /\ [][NextThreads]_vars

(***************************************************************************)
(* Claims                                                                  *)
(***************************************************************************)
\* C1: for any fixed resume record, the reports analyze_resume_deterministic
\* returns in two or more calls are equal to each other in every field.
C1_ReportsOfOneRecordEqual ==
    \A i, j \in DOMAIN history :
        history[i].resume_data = history[j].resume_data
            => history[i].report = history[j].report

\* C2: each of the fourteen scorers of the rule-based engine returns a score
\* between 0.0 and 10.0, whatever the record.
C2_ScoreInRange ==
    result.scorer # "none" => 0 <= result.score /\ result.score <= 1000

\* C2, witness: score_buzzwords has returned its lowest tier, 2.0, for a
\* record with more than five buzzwords.
C2_Witness ==
    /\ result.scorer = "score_buzzwords"
    /\ CountBuzzwords(resume_data) > 5
    /\ result.score = 200

\* the summary main.py hands to score_summary
SummaryOf(resume) == Get(resume, "Summary", "")

\* C3: score_summary returns exactly 2.0 when the summary is empty or has
\* fewer than ten characters once stripped, whatever else the record and
\* the short text hold.
C3_ShortSummaryScoresTwo ==
    (result.scorer = "score_summary" /\ Len(str_strip(SummaryOf(resume_data))) < 10)
        => result.score = 200

\* C3, witness: a summary of thirteen characters, nine of them once stripped,
\* with a strong verb and a percentage, in the full record, has scored 2.0.
C3_Witness ==
    /\ result.scorer = "score_summary"
    /\ resume_data = With(BaseResume, "Summary", "  Led 5% up  ")
    /\ result.score = 200

\* C4: score_skills_relevance returns exactly 2.0 when the record has no
\* Skills mapping or an empty one, whatever its other fields.
C4_NoSkillsScoresTwo ==
    (result.scorer = "score_skills_relevance"
     /\ Len(Get(resume_data, "Skills", <<>>)) = 0)
        => result.score = 200

\* C4, witness: the full record with an empty Skills mapping has scored 2.0.
C4_Witness ==
    /\ result.scorer = "score_skills_relevance"
    /\ resume_data = With(BaseResume, "Skills", <<>>)
    /\ result.score = 200

\* the final scores among the reports returned for the record
FinalScores(record) ==
    {history[i].report.deterministic_score :
        i \in {j \in DOMAIN history : history[j].resume_data = record}}

\* C5: the final scores of the three resumes of the consistency test satisfy
\* strong > average > weak, both strictly, whenever the reports were made.
C5_StrongAboveAverageAboveWeak ==
    /\ \A s \in FinalScores(StrongResume), a \in FinalScores(AverageResume) : s > a
    /\ \A a \in FinalScores(AverageResume), w \in FinalScores(WeakResume) : a > w

\* C5, witness: the average and the weak resume have both been analysed, the
\* average one scoring 6.75 and the weak one less than half of that.
C5_Witness ==
    /\ 675 \in FinalScores(AverageResume)
    /\ \E w \in FinalScores(WeakResume) : 0 < w /\ 2 * w < 675

\* C6: for every pair of counts of weak and of strong verbs, the two zeros
\* among them, score_weak_verbs with one more strong verb and the same weak
\* verbs is at least the score before.
C6_StrongVerbNeverLowers ==
    result.scorer = "score_weak_verbs" =>
        \A w \in 0..MaxWeakVerbs, s \in 0..MaxStrongVerbs :
            resume_data = VerbResume(w, s) =>
                LET more == VerbResume(w, s + 1)
                IN  /\ CountWeakVerbs(resume_data) = w
                    /\ CountStrongVerbs(resume_data) = s
                    /\ CountWeakVerbs(more) = w
                    /\ CountStrongVerbs(more) = s + 1
                    /\ score_weak_verbs(more) >= result.score

\* C6, witness: a record without any verb has scored the base 5.0, and the
\* same record with one strong verb scores 7.0.
C6_Witness ==
    /\ result.scorer = "score_weak_verbs"
    /\ resume_data = VerbResume(0, 0)
    /\ result.score = 500
    /\ score_weak_verbs(VerbResume(0, 1)) = 700

\* C7: score_buzzwords is 8.0 without a buzzword, 6.0 for one or two, 4.0
\* for three to five and 2.0 beyond, and one more buzzword never raises it.
C7_BuzzwordTiers ==
    result.scorer = "score_buzzwords" =>
        LET n == CountBuzzwords(resume_data)
        IN  /\ result.score = IF n = 0 THEN 800
                              ELSE IF n <= 2 THEN 600
                              ELSE IF n <= 5 THEN 400 ELSE 200
            /\ \A k \in 0..MaxBuzzwords :
                   resume_data = BuzzResume(k) =>
                       /\ n = k
                       /\ CountBuzzwords(BuzzResume(k + 1)) = k + 1
                       /\ score_buzzwords(BuzzResume(k + 1)) <= result.score

\* C7, witness: a record with two buzzwords has scored 6.0, and a third
\* buzzword brings it to 4.0.
C7_Witness ==
    /\ result.scorer = "score_buzzwords"
    /\ resume_data = BuzzResume(2)
    /\ result.score = 600
    /\ score_buzzwords(BuzzResume(3)) = 400

\* the Duration strings of the work experience that are not empty
DatedDurations(resume) ==
    LET work == Get(resume, "WorkExperience", <<>>)
    IN  SelectSeq([i \in DOMAIN work |-> Get(work[i], "Duration", "")],
                  LAMBDA d : Len(d) > 0)

\* the education entries with a start or an end year
DatedEducations(resume) ==
    SelectSeq(Get(resume, "Education", <<>>),
              LAMBDA e : Len(Get(e, "StartYear", "")) > 0 \/ Len(Get(e, "EndYear", "")) > 0)

\* C8: score_dates is the base 5.0 without a dated entry; with one, it adds
\* 3.0 when all durations that are not empty have one date format and takes
\* 2.0 when two of them differ, as "2020-01" and "2021/03" do, and adds 1.0
\* when there are two dated entries or more.
C8_DateRules ==
    result.scorer = "score_dates" =>
        LET durations == DatedDurations(resume_data)
            entries == Len(durations) + Len(DatedEducations(resume_data))
            labels == {_get_date_format(durations[i]) : i \in DOMAIN durations}
        IN  /\ result.score =
                   IF entries = 0 THEN 500
                   ELSE 500 + (IF Cardinality(labels) <= 1 THEN 300 ELSE -200)
                            + (IF entries >= 2 THEN 100 ELSE 0)
            /\ durations = <<"2020-01", "2021/03">> => result.score = 400

\* C8, witness: the durations "2020-01" and "2021/03", with no education
\* entry, have scored 5.0 - 2.0 + 1.0.
C8_Witness ==
    /\ result.scorer = "score_dates"
    /\ resume_data = DateResume(<<"2020-01", "2021/03">>, <<>>)
    /\ result.score = 400

\* the required contact fields the record holds with a value that is not empty
FilledContacts(resume) ==
    {f \in {"email", "phone", "address", "location", "city", "state", "linkedin",
            "github", "portfolio", "website"} :
        f \in DOMAIN resume /\ resume[f] # ""}

AchievementBullets(resume) == SelectSeq(Bullets(resume), IsAchievement)

\* C10: with a achievement bullets and r others over all jobs,
\* score_achievements_vs_responsibilities is 3.0 for a = 0, 6.0 for a > 0
\* and r = 0, and otherwise 5.0 plus 2.0 for a/(a+r) >= 0.6, plus 1.0 from
\* 0.4, unchanged from 0.2, minus 1.0 below; one of each gives 6.0.
C10_AchievementRatioRules ==
    result.scorer = "score_achievements_vs_responsibilities" =>
        LET a == Len(AchievementBullets(resume_data))
            r == Len(Bullets(resume_data)) - a
        IN  /\ result.score =
                   IF a = 0 THEN 300
                   ELSE IF r = 0 THEN 600
                   ELSE IF 10 * a >= 6 * (a + r) THEN 700
                   ELSE IF 10 * a >= 4 * (a + r) THEN 600
                   ELSE IF 10 * a >= 2 * (a + r) THEN 500
                   ELSE 400
            /\ (a = 1 /\ r = 1) => result.score = 600

\* C10, witness: a work history with one achievement bullet and one duty
\* bullet has scored 6.0.
C10_Witness ==
    /\ result.scorer = "score_achievements_vs_responsibilities"
    /\ resume_data = AchievementResume(1, 1)
    /\ Len(AchievementBullets(resume_data)) = 1
    /\ Len(Bullets(resume_data)) = 2
    /\ result.score = 600

\* C11: with w weak and s strong verb occurrences, score_weak_verbs is the
\* base 5.0 when w + s = 0; otherwise 5.0 minus 3.0 when w/(w+s) > 0.5, else
\* minus 1.5 when w/(w+s) > 0.3, and on its own plus 2.0 when s/(w+s) > 0.7,
\* else plus 1.0 when s/(w+s) > 0.5; a ratio equal to a threshold does not
\* pass it.
C11_VerbRatioTable ==
    result.scorer = "score_weak_verbs" =>
        LET w == CountWeakVerbs(resume_data)
            s == CountStrongVerbs(resume_data)
        IN  /\ result.score =
                   IF w + s = 0 THEN 500
                   ELSE 500 - (IF 2 * w > w + s THEN 300
                               ELSE IF 10 * w > 3 * (w + s) THEN 150 ELSE 0)
                            + (IF 10 * s > 7 * (w + s) THEN 200
                               ELSE IF 2 * s > w + s THEN 100 ELSE 0)
            /\ resume_data = VerbResume(3, 7) => w = 3 /\ s = 7 /\ result.score = 600
            /\ resume_data = VerbResume(7, 3) => w = 7 /\ s = 3 /\ result.score = 200
            /\ resume_data = VerbResume(1, 1) => w = 1 /\ s = 1 /\ result.score = 350

\* C11, witness: three weak and seven strong verbs, the ratios 0.3 and 0.7
\* exactly, have scored 5.0 + 1.0: no penalty, and the smaller bonus.
C11_Witness ==
    /\ result.scorer = "score_weak_verbs"
    /\ resume_data = VerbResume(3, 7)
    /\ CountWeakVerbs(resume_data) = 3
    /\ CountStrongVerbs(resume_data) = 7
    /\ result.score = 600

\* C12: with q matches of the quantifiable patterns in the corpus,
\* score_quantity_impact is 8.0 for q >= 5, 7.0 for q of 3 or 4, 6.0 for q of
\* 1 or 2 and 3.0 for q = 0; a record without a figure and without a verb
\* scores 3.0 here while score_weak_verbs leaves it at 5.0.
C12_QuantityTiers ==
    result.scorer = "score_quantity_impact" =>
        LET q == CountQuantifiable(resume_data)
        IN  /\ result.score = IF q >= 5 THEN 800
                              ELSE IF q >= 3 THEN 700
                              ELSE IF q >= 1 THEN 600 ELSE 300
            /\ \A n \in 0..MaxQuantities : resume_data = QuantityResume(n) => q = n
            /\ (q = 0 /\ CountWeakVerbs(resume_data) + CountStrongVerbs(resume_data) = 0)
                   => score_weak_verbs(resume_data) = 500 /\ result.score = 300

\* C12, witness: a record without a figure and without a verb has scored
\* 3.0, and score_weak_verbs gives the same record 5.0.
C12_Witness ==
    /\ result.scorer = "score_quantity_impact"
    /\ resume_data = QuantityResume(0)
    /\ CountQuantifiable(resume_data) = 0
    /\ CountWeakVerbs(resume_data) + CountStrongVerbs(resume_data) = 0
    /\ result.score = 300
    /\ score_weak_verbs(resume_data) = 500

\* the skill categories of the record that hold at least one skill
PopulatedCategories(resume) ==
    LET skills == Get(resume, "Skills", <<>>)
    IN  {i \in DOMAIN skills : Len(skills[i][2]) > 0}

\* the sections among work experience, education and skills the record
\* holds with content
FilledSections(resume) ==
    {section \in {"WorkExperience", "Education", "Skills"} :
        Len(Get(resume, section, <<>>)) > 0}

\* C13: score_formatting_layout is 5.0, plus 2.0 with work experience,
\* education and skills all present, plus 1.0 with two of them, minus 1.0
\* with fewer; plus 1.0 only when more than one skill category is populated
\* (not for a single category, nor for categories that are all empty); plus
\* 1.0 when the first job lists a responsibility.
C13_FormattingRules ==
    result.scorer = "score_formatting_layout" =>
        LET sections == Cardinality(FilledSections(resume_data))
            work == Get(resume_data, "WorkExperience", <<>>)
        IN  result.score =
                500 + (IF sections = 3 THEN 200 ELSE IF sections = 2 THEN 100 ELSE -100)
                    + (IF Cardinality(PopulatedCategories(resume_data)) > 1 THEN 100 ELSE 0)
                    + (IF Len(work) > 0 /\ Len(Get(work[1], "Responsibilities", <<>>)) > 0
                       THEN 100 ELSE 0)

\* C14: for a skills mapping that is not empty, score_skills_relevance is
\* 5.0, plus 1.0 only when more than one skill category holds a skill
\* (a category with an empty list does not count), plus 2.0 for three or
\* more tech-stack entries or 1.0 for one or two, plus 1.0 for two or more
\* soft skills.
C14_SkillsRules ==
    (result.scorer = "score_skills_relevance" /\ Len(Get(resume_data, "Skills", <<>>)) > 0) =>
        LET skills == resume_data["Skills"]
            entries(category) ==
                SumSeq([i \in DOMAIN skills |->
                           IF skills[i][1] = category THEN Len(skills[i][2]) ELSE 0])
            tech == entries("TechStack")
            soft == entries("soft_skills")
        IN  result.score =
                500 + (IF Cardinality(PopulatedCategories(resume_data)) > 1 THEN 100 ELSE 0)
                    + (IF tech >= 3 THEN 200 ELSE IF tech >= 1 THEN 100 ELSE 0)
                    + (IF soft >= 2 THEN 100 ELSE 0)

C15_WitnessFallback ==
    /\ result.scorer = "score_ats_keywords"
    /\ job_keywords = <<>>
    /\ resume_data = GeneralResume(4)
    /\ CountGeneralMatches(resume_data) = 4
    /\ result.score = 600

\* the per-section scores of the response, and their sum
OverallTotal == SumOver(overall.section_analyses, DOMAIN overall.section_analyses)

\* the grades from the worst to the best
GradeRank(grade) ==
    CASE grade = "F (Poor)" -> 0
      [] grade = "D (Below Average)" -> 1
      [] grade = "C (Average)" -> 2
      [] grade = "B (Above Average)" -> 3
      [] grade = "B+ (Good)" -> 4
      [] grade = "A (Very Good)" -> 5
      [] grade = "A+ (Excellent)" -> 6

\* the totals thirteen section scores between 0.0 and 10.0 in steps of 0.5
\* can have, in hundredths
Totals == {50 * k : k \in 0..(20 * Len(all_sections))}

\* C16: the overall score of hybrid_analyze_all_sections is the mean of the
\* section scores times 10; it lies in [0, 100] when every section score
\* lies in [0, 10]; its grade is A+ from 90, A from 80, B+ from 70, B from
\* 60, C from 50, D from 40 and F below, and the grade of a higher score is
\* never worse.
C16_MeanAndGrade ==
    overall.grade # "none" =>
        LET sections == DOMAIN overall.section_analyses
            count == Cardinality(sections)
            score == overall.score
            Table(s) == IF s.num >= 90 * s.den THEN 6
                        ELSE IF s.num >= 80 * s.den THEN 5
                        ELSE IF s.num >= 70 * s.den THEN 4
                        ELSE IF s.num >= 60 * s.den THEN 3
                        ELSE IF s.num >= 50 * s.den THEN 2
                        ELSE IF s.num >= 40 * s.den THEN 1 ELSE 0
        IN  /\ sections = Range(all_sections)
            /\ count = Len(all_sections)
            \* score = (total / count) * 10, total in hundredths of a point
            /\ score.den > 0
            /\ score.num * 10 * count = OverallTotal * score.den
            /\ (\A section \in sections :
                    /\ 0 <= overall.section_analyses[section]
                    /\ overall.section_analyses[section] <= 1000)
                   => 0 <= score.num /\ score.num <= 100 * score.den
            /\ GradeRank(overall.grade) = Table(score)
            /\ \A total \in Totals :
                   LET s == overall_score_100(total, count)
                   IN  /\ GradeRank(get_grade(s)) = Table(s)
                       /\ total >= OverallTotal
                              => GradeRank(get_grade(s)) >= GradeRank(overall.grade)

\* C16, witness: thirteen section scores with the mean 6.0 have the overall
\* score 60 and the grade B.
C16_Witness ==
    /\ overall.grade = "B (Above Average)"
    /\ OverallTotal = 600 * Len(all_sections)
    /\ overall.score.num = 60 * overall.score.den

\* the six section scores of the call, when it was given the six sections
SixSections == DOMAIN section_scores = Range(Sections)

\* the result of one of the two weighted, boosted aggregators
BoostedResult == result.scorer \in {"_calculate_final_score", "_calculate_supreme_score"}

\* C17 as claimed: for any six section scores in [0, 10], the result of
\* _calculate_final_score and of _calculate_supreme_score lies in [0, 10]
\* and is strictly positive when at least one section score is positive.
C17_PositiveForAnyPositiveSection ==
    (BoostedResult /\ SixSections) =>
        /\ 0 <= result.score /\ result.score <= 1000
        /\ (\E section \in DOMAIN section_scores : section_scores[section] > 0)
               => result.score > 0

\* C17, amended: for any six section scores in [0, 10], the result lies in
\* [0, 10]; it is strictly positive when at least one section score is 0.15
\* or more (the result is rounded to two decimals, so that smaller scores
\* can give 0.0), and it is 0.0 when all section scores are 0.
C17_InRangeAndPositiveFromFifteenHundredths ==
    (BoostedResult /\ SixSections) =>
        /\ 0 <= result.score /\ result.score <= 1000
        /\ (\E section \in DOMAIN section_scores : section_scores[section] >= 15)
               => result.score > 0
        /\ (\A section \in DOMAIN section_scores : section_scores[section] = 0)
               => result.score = 0

\* C17, witness: a formatting score of 0.15 beside five scores of 0 has
\* given 0.01.
C17_Witness ==
    /\ BoostedResult
    /\ SixSections
    /\ section_scores["formatting"] = 15
    /\ \A section \in DOMAIN section_scores \ {"formatting"} : section_scores[section] = 0
    /\ result.score = 1

\* the weights an aggregator gives the sections of the call (0.1 for a
\* section its configuration does not name) are all equal
EqualWeights(weights) ==
    \A a, b \in DOMAIN section_scores : Get(weights, a, 10) = Get(weights, b, 10)

\* the sum of the section scores of the call
SectionTotal == SumOver(section_scores, DOMAIN section_scores)

\* C18: when all section weights are equal, the aggregate of a weighted
\* aggregator is the arithmetic mean of the section scores, whatever the
\* scores: for _calculate_final_score and _calculate_supreme_score as for
\* _calculate_weighted_score.
C18_EqualWeightsGiveMean ==
    LET count == Cardinality(DOMAIN section_scores)
    IN  /\ (result.scorer = "_calculate_final_score" /\ EqualWeights(scoring_weights))
               => result.score * count = SectionTotal
        /\ (result.scorer = "_calculate_supreme_score"
                /\ EqualWeights(supreme_config.scoring_weights))
               => result.score * count = SectionTotal
        /\ (result.scorer = "_calculate_weighted_score"
                /\ EqualWeights(advanced_scoring_weights))
               => result.score.num * count = SectionTotal * result.score.den

\* the part of C18 that holds: _calculate_weighted_score returns the mean
\* when the weights are equal
WeightedScoreIsMeanForEqualWeights ==
    (result.scorer = "_calculate_weighted_score" /\ EqualWeights(advanced_scoring_weights))
        => result.score.num * Cardinality(DOMAIN section_scores)
               = SectionTotal * result.score.den

\* the sections of a report that scored below 7.0
BelowSeven(report) == {section \in Range(Sections) : report.section_scores[section] < 700}

\* the suggestion the engine words for a section
SuggestionFor ==
    [summary |-> "Enhance summary with quantifiable achievements and action verbs",
     skills |-> "Add more relevant technical and soft skills",
     experience |-> "Include more quantifiable achievements and leadership examples",
     keywords |-> "Incorporate more industry-specific keywords naturally",
     formatting |-> "Ensure all required sections are present and well-structured"]

\* C19: the recommendations of a report hold exactly one suggestion for
\* each of summary, skills, experience, education, keywords and formatting
\* that scored below 7.0, none twice, and none for a section that scored
\* 7.0 or more.
C19_OneSuggestionPerLowSection ==
    \A k \in DOMAIN history :
        LET report == history[k].report
            recommendations == report.recommendations
        IN  /\ \A i, j \in DOMAIN recommendations :
                   recommendations[i] = recommendations[j] => i = j
            /\ Len(recommendations) = Cardinality(BelowSeven(report))
            /\ \A section \in DOMAIN SuggestionFor :
                   (SuggestionFor[section] \in Range(recommendations))
                       <=> section \in BelowSeven(report)

\* the part of C19 that holds: the five sections other than education
\* have their suggestion exactly when they scored below 7.0, none twice
SuggestionsOfFiveSections ==
    \A k \in DOMAIN history :
        LET report == history[k].report
            recommendations == report.recommendations
        IN  /\ \A i, j \in DOMAIN recommendations :
                   recommendations[i] = recommendations[j] => i = j
            /\ \A section \in DOMAIN SuggestionFor :
                   (SuggestionFor[section] \in Range(recommendations))
                       <=> section \in BelowSeven(report)

\* the record with the categories of its skills mapping inserted in the
\* opposite order: the same categories, the same skills in each
SkillsReordered(resume) ==
    IF "Skills" \in DOMAIN resume
    THEN LET skills == resume["Skills"]
         IN  With(resume, "Skills",
                  [i \in DOMAIN skills |-> skills[Len(skills) + 1 - i]])
    ELSE resume

\* the section a scorer of the result scores
SectionOf(scorer) ==
    CASE scorer = "score_weak_verbs" -> "weak_verbs"
      [] scorer = "score_quantity_impact" -> "quantity_impact"
      [] scorer = "score_teamwork" -> "teamwork"
      [] scorer = "score_buzzwords" -> "buzzwords"
      [] scorer = "score_grammar_spelling" -> "grammar_spelling"
      [] scorer = "score_ats_keywords" -> "ats_keywords"

\* C20: two records with the same skills in the same categories, the
\* categories inserted in a different order, have the same corpus, and so
\* the same score from each scorer that reads the corpus: weak verbs,
\* quantity impact, teamwork, buzzwords, grammar and ATS keywords.
C20_CorpusIgnoresCategoryOrder ==
    result.scorer \in {"score_weak_verbs", "score_quantity_impact", "score_teamwork",
                       "score_buzzwords", "score_grammar_spelling", "score_ats_keywords"} =>
        LET other == SkillsReordered(resume_data)
        IN  /\ _extract_all_text(other) = _extract_all_text(resume_data)
            /\ _get_deterministic_score(SectionOf(result.scorer), other, job_keywords)
                   = result.score

\* the scores alone differ as well: there is a record whose buzzword score
\* changes with the order of its skill categories
ScoresIgnoreCategoryOrder ==
    result.scorer = "score_buzzwords" =>
        score_buzzwords(SkillsReordered(resume_data)) = result.score

\* the score a scorer returns for the record when it runs alone on a new engine
ScoreAlone(scorer) ==
    IF scorer = "score_weak_verbs" THEN score_weak_verbs(resume_data)
    ELSE score_buzzwords(resume_data)

\* C21: whatever scorer calls the threads make on the one engine and in
\* whatever order their statements interleave, the lexicons of the engine
\* stay those of a new engine, no step changes the record, and a call that
\* has returned has returned the score the scorer gives the record when
\* it runs alone on a new engine.
C21_CallsShareNoMutableState ==
    /\ [](engine = DeterministicATSEngine)
    /\ [][resume_data' = resume_data]_vars
    /\ [](\A t \in Threads :
             calls[t].pc = "done" => calls[t].score = ScoreAlone(calls[t].scorer))

\* a call of score_buzzwords has returned 2.0 while the other thread is
\* between the two loops of score_weak_verbs
C21_Witness ==
    \E t, u \in Threads :
        /\ calls # NoCalls
        /\ calls[t].pc = "done" /\ calls[t].scorer = "score_buzzwords"
        /\ calls[t].score = 200
        /\ calls[u].scorer = "score_weak_verbs" /\ Len(calls[u].counts) = 1

\* C22: no call divides by zero.  A scorer or aggregator that has returned
\* has returned a score, not raised ZeroDivisionError, and where the
\* denominator of its ratio is zero the score is the defined one: 5.0 from
\* score_weak_verbs without any verb, 3.0 from
\* score_achievements_vs_responsibilities without any bullet, 0 from an
\* aggregator without any section; the summary of an analysed record has
\* its keyword density and sentence length over positive denominators.
C22_NoDivisionByZero ==
    /\ result.scorer = "score_weak_verbs" =>
           /\ result.score \in 0..1000
           \* the record is the scored one until an analysis is given another
           /\ (/\ history = <<>>
               /\ CountWeakVerbs(resume_data) + CountStrongVerbs(resume_data) = 0) =>
                  result.score = 500
    /\ result.scorer = "score_achievements_vs_responsibilities" =>
           /\ result.score \in 0..1000
           /\ (history = <<>> /\ Len(Bullets(resume_data)) = 0) => result.score = 300
    /\ result.scorer \in {"_calculate_final_score", "_calculate_supreme_score"} =>
           /\ result.score \in 0..1000
           /\ section_scores = NoScores => result.score = 0
    /\ result.scorer = "_calculate_weighted_score" =>
           /\ result.score.den > 0
           /\ section_scores = NoScores => result.score.num = 0
    /\ \A i \in DOMAIN history :
           /\ _extract_summary(history[i].resume_data).words > 0
           /\ _extract_summary(history[i].resume_data).sentences > 0
           /\ history[i].report.deterministic_score \in 0..1000

\* score_weak_verbs has returned for a record without any verb
C22_Witness ==
    /\ result.scorer = "score_weak_verbs"
    /\ history = <<>>
    /\ CountWeakVerbs(resume_data) + CountStrongVerbs(resume_data) = 0
    /\ result.score = 500

\* the scorers among the calls of a run
ScorersEntered(run) ==
    {run.entered[i] : i \in DOMAIN run.entered} \ {"_extract_summary", "_extract_skills",
                                                   "_extract_experience", "_extract_education"}

\* C23: a record with a field of the wrong type ends the run with the one
\* validation error, raised before any scorer is entered and without a
\* report; every run ends with the whole report or with that error.
C23_ValidationErrorBeforeAnyScorer ==
    \A i \in DOMAIN history :
        LET run == history[i].run
        IN  /\ run.error \in {"none", "ValidationError"}
            /\ run.error = "none" <=> run.report # NoReport
            /\ history[i].wrong # "none" =>
                   /\ run.error = "ValidationError"
                   /\ ScorersEntered(run) = {}

\* C24: for the record with every field missing the extraction steps give
\* the empty text, zero counts and empty lists, and the analysis returns a
\* report whose section scores lie in [0, 10]; every scorer of the
\* rule-based engine returns a score in [0, 10] for a record without
\* content, and none raises.
C24_EmptyRecordIsScored ==
    /\ \A i \in DOMAIN history :
           LET record == history[i].resume_data
               report == history[i].report
               summary_data == _extract_summary(record)
               skills_data == _extract_skills(record)
           IN  /\ \A section \in Range(Sections) : report.section_scores[section] \in 0..1000
               /\ report.deterministic_score \in 0..1000
               /\ record = EmptyResume =>
                      /\ summary_data.text = "" /\ summary_data.length = 0
                      /\ summary_data.metrics_found = 0 /\ summary_data.action_verbs = 0
                      /\ summary_data.keyword_count = 0 /\ summary_data.sentence_words = 0
                      /\ skills_data.all_skills = <<>>
                      /\ skills_data.technical_count = 0 /\ skills_data.soft_count = 0
                      /\ _extract_experience(record) = <<>>
                      /\ _extract_education(record) = <<>>
    /\ result.scorer # "none" => result.score \in 0..1000
    /\ overall # NoOverall =>
           \A section \in Range(all_sections) : overall.section_analyses[section] \in 0..1000

\* the record with every field missing has been analysed, after a scorer of
\* the rule-based engine returned for a record without content
C24_Witness ==
    /\ result.scorer = "score_achievements_vs_responsibilities"
    /\ \E i \in DOMAIN history :
           /\ history[i].resume_data = EmptyResume
           /\ history[i].report.section_scores.experience = 0

\* C25: when the request to the language model raises, analyze_section
\* still returns, its gpt_analysis holds an error entry, and its
\* deterministic score is the score the scorer of the section returned
\* when it was called on its own for the same record; the same score is
\* returned when the request is answered.
C25_GptFailureKeepsDeterministicScore ==
    overall # NoOverall =>
        /\ overall.api = "raises" => "error" \in DOMAIN overall.response.gpt_analysis
        /\ result.scorer = "score_" \o overall.response.section =>
               /\ overall.response.deterministic_score.score = result.score
               /\ overall.response.deterministic_score.percentage.num = 100 * result.score
        /\ overall.response.section = "magic_write" =>
               overall.response.deterministic_score.score = 0

\* the request raised for the buzzwords of a record whose buzzword score
\* the scorer had returned on its own before
C25_Witness ==
    /\ overall # NoOverall
    /\ overall.api = "raises"
    /\ overall.response.section = "buzzwords"
    /\ result.scorer = "score_buzzwords"
    /\ result.score = 400
    /\ overall.response.deterministic_score.score = 400

\* the final scores the aggregator of the result can return for a vector
FinalScoresOf(scores) ==
    IF result.scorer = "_calculate_final_score" THEN _calculate_final_score_outcomes(scores)
    ELSE _calculate_supreme_score(scores)

\* the score from which the weight of a section is boosted; above every
\* score for a section without boost
BoostFrom(section) ==
    CASE section \in {"summary", "skills"} -> 800
      [] section \in {"experience", "keywords"} -> 700
      [] OTHER -> 1001

\* C26 as claimed: raising the score of one section, the others unchanged,
\* never lowers the final score, also when the raised score reaches the
\* score from which the section is boosted.
C26_MonotoneInEachSection ==
    BoostedResult =>
        \A section \in Range(Sections), higher \in BoostGrid :
            higher > section_scores[section] =>
                \A final \in FinalScoresOf([section_scores EXCEPT ![section] = higher]) :
                    final >= result.score

\* C26 as amended: raising the score of one section, the others unchanged,
\* never lowers the final score as long as the section is boosted at both
\* scores or at neither.
C26_MonotoneBesideBoostThresholds ==
    BoostedResult =>
        \A section \in Range(Sections), higher \in BoostGrid :
            (/\ higher > section_scores[section]
             /\ ~(section_scores[section] < BoostFrom(section) /\ BoostFrom(section) <= higher)) =>
                \A final \in FinalScoresOf([section_scores EXCEPT ![section] = higher]) :
                    final >= result.score

\* a final score below 10 for a vector whose experience is boosted and can
\* be raised further
C26_Witness ==
    /\ result.scorer = "_calculate_final_score"
    /\ result.score < 1000
    /\ section_scores["experience"] = 700
    /\ section_scores["summary"] = 1000
    /\ section_scores["education"] = 0

\* C27: score_summary returns a score from 2.0 to 10.0 for every summary,
\* whatever its buzzwords and sentences, and 2.0, the score of an empty
\* summary, is a score a long summary gets.
C27_SummaryNeverBelowTwo ==
    result.scorer = "score_summary" => (200 <= result.score /\ result.score <= 1000)

\* a summary of more than four sentences and more than four buzzwords has
\* been scored 2.0
C27_Witness ==
    /\ result.scorer = "score_summary"
    /\ result.score = 200
    /\ "Summary" \in DOMAIN resume_data
    /\ ~summary_too_short(resume_data["Summary"])
    /\ str_count(resume_data["Summary"], ".") + 1 > 4
    /\ Cardinality({buzzword \in buzzwords :
                       str_contains(buzzword, str_lower(resume_data["Summary"]))}) > 4
\* C28: a record with a non-empty Email and a non-empty Phone under the
\* capitalised keys of ResumeModel, the naming the other scorers read,
\* earns the bonus of both essential fields: its contact score is at least
\* 8.0.
C28_CapitalisedContactsEarnBonus ==
    (/\ result.scorer = "score_contact_details"
     /\ Present(resume_data, "Email")
     /\ Present(resume_data, "Phone")) => result.score >= 800

\* C29: the section scores and the final score of a report depend on the
\* record alone; two calls with one record, whatever the time and the year
\* of each call, return equal section scores and an equal final score.
C29_ScoresOfOneRecordEqual ==
    \A i, j \in DOMAIN history :
        history[i].resume_data = history[j].resume_data
            => /\ history[i].report.section_scores = history[j].report.section_scores
               /\ history[i].report.deterministic_score = history[j].report.deterministic_score

\* C30 as claimed: with the number of bullets fixed, turning one
\* responsibility bullet into an achievement bullet never lowers the score
\* of score_achievements_vs_responsibilities, the step that leaves no
\* responsibility included.
C30_MoreAchievementsNeverLower ==
    \A a \in 0..(MaxAchievements - 1), r \in 1..MaxResponsibilities :
        (/\ result.scorer = "score_achievements_vs_responsibilities"
         /\ resume_data = AchievementResume(a, r))
            => score_achievements_vs_responsibilities(AchievementResume(a + 1, r - 1))
                   >= result.score

\* C30 as amended: the step never lowers the score unless it turns the last
\* responsibility of a record with two or more achievements; that step
\* lowers the score from 7.0 to 6.0.
C30_MoreAchievementsLowerOnlyAtLastResponsibility ==
    \A a \in 0..(MaxAchievements - 1), r \in 1..MaxResponsibilities :
        (/\ result.scorer = "score_achievements_vs_responsibilities"
         /\ resume_data = AchievementResume(a, r))
            => LET stepped ==
                       score_achievements_vs_responsibilities(AchievementResume(a + 1, r - 1))
               IN  IF r = 1 /\ a >= 2
                   THEN result.score = 700 /\ stepped = 600
                   ELSE stepped >= result.score

\* a record with one achievement and two responsibilities has been scored
\* 5.0, and turning one of the two responsibilities gives 7.0
C30_Witness ==
    /\ result.scorer = "score_achievements_vs_responsibilities"
    /\ resume_data = AchievementResume(1, 2)
    /\ result.score = 500
    /\ score_achievements_vs_responsibilities(AchievementResume(2, 1)) = 700

====
